---- MODULE Spec2Model ----
(***************************************************************************)
(* DeltaOS kernel, boot information decoder (kernel/boot_info.c).          *)
(*                                                                         *)
(* The blob handed over by the bootloader is modelled byte for byte; the   *)
(* parser reads it through Mem, an address-indexed view of memory.  C      *)
(* integers keep their width: a u16/u32/u64 value is the little-endian     *)
(* sequence of its 2/4/8 bytes (the layout the PACKED structures have on   *)
(* amd64), and all arithmetic on them is done digit by digit, so that      *)
(* wrap-around at 2^32 and 2^64 is what the hardware does.                 *)
(***************************************************************************)
EXTENDS Integers, Sequences, FiniteSets, TLC

(***************************************************************************)
(* Fixed-width unsigned integers as little-endian byte sequences.          *)
(***************************************************************************)
Byte == 0..255

\* the n-byte value of a small natural v (v < 2^31)
LE(v, n) ==
  [i \in 1..n |-> IF i = 1 THEN v % 256
                  ELSE IF i = 2 THEN (v \div 256) % 256
                  ELSE IF i = 3 THEN (v \div 65536) % 256
                  ELSE IF i = 4 THEN v \div 16777216
                  ELSE 0]

u16(v) == LE(v, 2)
u32(v) == LE(v, 4)
u64(v) == LE(v, 8)

\* zero-extension of a value to n bytes (integer promotion)
Zext(a, n) == [i \in 1..n |-> IF i <= Len(a) THEN a[i] ELSE 0]

\* truncation to the low n bytes (a narrowing cast)
Trunc(a, n) == [i \in 1..n |-> a[i]]

IsZero(a) == \A i \in 1..Len(a) : a[i] = 0

\* the natural number held in a, for values known to be below 2^31
RECURSIVE ValFrom(_, _)
ValFrom(a, i) == IF i > Len(a) THEN 0 ELSE a[i] + 256 * ValFrom(a, i + 1)
Val(a) == ValFrom(a, 1)

\* unsigned a < b, operands of equal width
RECURSIVE LtFrom(_, _, _)
LtFrom(a, b, i) ==
  IF i = 0 THEN FALSE
  ELSE IF a[i] # b[i] THEN a[i] < b[i]
  ELSE LtFrom(a, b, i - 1)
Lt(a, b) == LtFrom(a, b, Len(a))
Le(a, b) == ~Lt(b, a)
Gt(a, b) == Lt(b, a)
Ge(a, b) == ~Lt(a, b)

\* a + b modulo 2^(8 * Len(a)), operands of equal width
RECURSIVE AddFrom(_, _, _, _)
AddFrom(a, b, i, c) ==
  IF i > Len(a) THEN <<>>
  ELSE LET s == a[i] + b[i] + c
       IN  <<s % 256>> \o AddFrom(a, b, i + 1, s \div 256)
Add(a, b) == AddFrom(a, b, 1, 0)

\* the bitwise complement of a, which is MAX - a
Not(a) == [i \in 1..Len(a) |-> 255 - a[i]]

\* a - b modulo 2^(8 * Len(a))
Sub(a, b) == AddFrom(a, Not(b), 1, 1)

\* a * b modulo 2^(8 * Len(a)), operands of equal width
RECURSIVE ColSum(_, _, _, _)
ColSum(a, b, k, i) ==
  IF i > k THEN 0 ELSE a[i] * b[k + 1 - i] + ColSum(a, b, k, i + 1)
RECURSIVE MulFrom(_, _, _, _)
MulFrom(a, b, k, c) ==
  IF k > Len(a) THEN <<>>
  ELSE LET s == ColSum(a, b, k, 1) + c
       IN  <<s % 256>> \o MulFrom(a, b, k + 1, s \div 256)
Mul(a, b) == MulFrom(a, b, 1, 0)

\* a / 2^20 for a u64: drop two bytes and four bits
Shr20(a) ==
  [i \in 1..8 |->
     LET lo == IF i + 2 <= 8 THEN a[i + 2] \div 16 ELSE 0
         hi == IF i + 3 <= 8 THEN a[i + 3] % 16 ELSE 0
     IN  lo + 16 * hi]

(***************************************************************************)
(* Protocol constants and structure sizes (kernel/boot_info.h).            *)
(***************************************************************************)
DB_BOOT_MAGIC       == 1145196363      \* 0x44424F4B
DB_PROTOCOL_VERSION == 1
DB_TAG_MODULES      == 4
DB_TAG_BOOT_TIME    == 7
DB_TAG_KERNEL_FILE  == 9
DB_TAG_EFI_SYSTAB   == 10
DB_TAG_END          == 0
DB_TAG_CMDLINE      == 1
DB_TAG_MEMORY_MAP   == 2
DB_TAG_FRAMEBUFFER  == 3
DB_TAG_ACPI_RSDP    == 5
DB_TAG_SMP          == 6
DB_TAG_BOOTLOADER   == 8
DB_TAG_INITRD       == 11
DB_MEM_USABLE       == 1

SizeofBootInfo       == 16   \* sizeof(struct db_boot_info)
SizeofTag            == 8    \* sizeof(struct db_tag)
SizeofMmapEntry      == 24   \* sizeof(struct db_mmap_entry)
SizeofTagFramebuffer == 40   \* sizeof(struct db_tag_framebuffer)
SizeofTagAcpiRsdp    == 16   \* sizeof(struct db_tag_acpi_rsdp)
SizeofTagInitrd      == 24   \* sizeof(struct db_tag_initrd)

MaxTotalSize == 16777216     \* 16 * 1024 * 1024
max_tags     == 1000

U32_MAX == <<255, 255, 255, 255>>
U64_MAX == <<255, 255, 255, 255, 255, 255, 255, 255>>
NULL    == u64(0)

(***************************************************************************)
(* State.                                                                  *)
(*   blob     the memory region the bootloader built: the address info it  *)
(*            is passed at (null when no pointer is passed), the four      *)
(*            header fields, and the bytes that follow the header: pad     *)
(*            filler tags of 8 bytes, then body.  Bytes of the region      *)
(*            beyond body are zero.                                        *)
(*   outside  memory that is not part of the blob, i.e. every address      *)
(*            outside [info, info + total_size): an 8-byte pattern,        *)
(*            repeated.  Reading there is reading out of bounds.           *)
(*   parsed   the caller's struct parsed_boot_info                         *)
(*   tag, found_end_tag, tag_count   locals of boot_info_parse             *)
(*   pc       position inside boot_info_parse                              *)
(*   valid    what boot_info_validate returned to it in Step 1             *)
(*   ret      its return value, meaningful when pc = "done"                *)
(*   call     1 during the first call on the blob, 2 during the second     *)
(*   prev     verdict and record of the first call, kept for the second    *)
(*   oob      some byte read so far in this call lay outside the blob      *)
(*   totals   the running byte total after each entry of the memory map   *)
(*            recorded last in this call                                   *)
(*   past_header  some byte read so far in this call lay outside the       *)
(*            16-byte header                                               *)
(*   visited  number of tags the cursor has returned in this call          *)
(*   endAt    index (1-based) of the visited tag of type End, 0 if none    *)
(*   mmapAt   index of the last visited tag recorded as memory map         *)
(*   chain    the addresses of the visited tags that lie in body, in order *)
(***************************************************************************)
VARIABLES blob, outside, parsed, tag, found_end_tag, tag_count, pc, valid,
          ret, call, prev, oob, visited, endAt, mmapAt, chain, past_header,
          totals, kernel_main

vars == <<blob, outside, parsed, tag, found_end_tag, tag_count, pc, valid,
          ret, call, prev, oob, visited, endAt, mmapAt, chain, past_header,
          totals, kernel_main>>

(***************************************************************************)
(* Memory.                                                                 *)
(***************************************************************************)
\* one past the last byte of the blob: (const u8 *)info + info->total_size
boot_info_end == Add(blob.info, Zext(blob.total_size, 8))

InBlob(addr) == Ge(addr, blob.info) /\ Lt(addr, boot_info_end)

\* the filler tag that pad repeats: type 0x8000, flags 0, size 8
PadTag == <<0, 128, 0, 0, 8, 0, 0, 0>>

HeaderBytes == blob.magic \o blob.total_size \o blob.version \o blob.reserved

\* the byte at offset off of the region the bootloader built
BlobByte(off) ==
  IF off < SizeofBootInfo THEN HeaderBytes[off + 1]
  ELSE IF off < SizeofBootInfo + 8 * blob.pad
       THEN PadTag[((off - SizeofBootInfo) % 8) + 1]
  ELSE LET k == off - SizeofBootInfo - 8 * blob.pad + 1
       IN  IF k <= Len(blob.body) THEN blob.body[k] ELSE 0

\* the byte at address addr
Mem(addr) ==
  IF InBlob(addr) THEN BlobByte(Val(Sub(addr, blob.info)))
  ELSE outside[(addr[1] % 8) + 1]

\* address arithmetic: p + k bytes, modulo 2^64
Ptr(p, k) == Add(p, u64(k))

\* the n bytes at addr, i.e. a little-endian load of width n
Rd(addr, n) == [i \in 1..n |-> Mem(Ptr(addr, i - 1))]

\* a load of n bytes at addr stays inside [info, info + total_size)
LoadInBlob(addr, n) == \A i \in 0..(n - 1) : InBlob(Ptr(addr, i))

\* field loads of struct db_tag
TagType(t) == Val(Rd(t, 2))
TagSize(t) == Rd(Ptr(t, 4), 4)

(***************************************************************************)
(* Helpers of boot_info.c and types.h.                                     *)
(***************************************************************************)
\* ALIGN_UP(value, align) on a u32 value, align a power of two up to 256:
\* (((value) + (align) - 1) & ~((align) - 1)), computed modulo 2^32
\* ALIGN_UP that leaves the value as it is
ALIGN_UP_asis(value, align) == value

ALIGN_UP(value, align) ==
  LET t == Add(value, u32(align - 1))
  IN  [t EXCEPT ![1] = t[1] - (t[1] % align)]

\* safe_add_u64: the sum is stored only when b <= U64_MAX - a
safe_add_u64_ok(a, b) == ~Gt(b, Sub(U64_MAX, a))
\* safe_add_u64 without the test: the sum modulo 2^64
safe_add_u64_wrap(a, b, old) == Add(a, b)
\* safe_add_u64 reporting an overflow on every sum
safe_add_u64_never(a, b, old) == old

safe_add_u64(a, b, old) == IF safe_add_u64_ok(a, b) THEN Add(a, b) ELSE old

(***************************************************************************)
(* Header Validator: boot_info_validate.                                   *)
(***************************************************************************)
\* the validator with the lower size bound off by one (<= for <)
boot_info_validate_le(b) ==
  IF b.info = NULL THEN FALSE
  ELSE IF b.magic # u32(DB_BOOT_MAGIC) THEN FALSE
  ELSE IF Le(Zext(b.total_size, 8), u64(SizeofBootInfo + 8)) THEN FALSE
  ELSE IF Gt(b.total_size, u32(MaxTotalSize)) THEN FALSE
  ELSE IF Lt(b.version, u32(DB_PROTOCOL_VERSION)) THEN FALSE
  ELSE IF b.reserved # u32(0) THEN FALSE
  ELSE TRUE

\* the validator asking for room for the header only
boot_info_validate_header(b) ==
  IF b.info = NULL THEN FALSE
  ELSE IF b.magic # u32(DB_BOOT_MAGIC) THEN FALSE
  ELSE IF Lt(Zext(b.total_size, 8), u64(SizeofBootInfo)) THEN FALSE
  ELSE IF Gt(b.total_size, u32(MaxTotalSize)) THEN FALSE
  ELSE IF Lt(b.version, u32(DB_PROTOCOL_VERSION)) THEN FALSE
  ELSE IF b.reserved # u32(0) THEN FALSE
  ELSE TRUE

boot_info_validate(b) ==
  IF b.info = NULL THEN FALSE
  ELSE IF b.magic # u32(DB_BOOT_MAGIC) THEN FALSE
  ELSE IF Lt(Zext(b.total_size, 8), u64(SizeofBootInfo + 8)) THEN FALSE
  ELSE IF Gt(b.total_size, u32(MaxTotalSize)) THEN FALSE
  ELSE IF Lt(b.version, u32(DB_PROTOCOL_VERSION)) THEN FALSE
  ELSE IF b.reserved # u32(0) THEN FALSE
  ELSE TRUE

\* the loads boot_info_validate performs, check by check
ValidateLoads(b) ==
  LET magic      == {<<b.info, 4>>}
      total_size == {<<Ptr(b.info, 4), 4>>}
      version    == {<<Ptr(b.info, 8), 4>>}
      reserved   == {<<Ptr(b.info, 12), 4>>}
  IN  IF b.info = NULL THEN {}
      ELSE IF b.magic # u32(DB_BOOT_MAGIC) THEN magic
      ELSE IF \/ Lt(Zext(b.total_size, 8), u64(SizeofBootInfo + 8))
              \/ Gt(b.total_size, u32(MaxTotalSize))
           THEN magic \cup total_size
      ELSE IF Lt(b.version, u32(DB_PROTOCOL_VERSION))
           THEN magic \cup total_size \cup version
      ELSE magic \cup total_size \cup version \cup reserved

(***************************************************************************)
(* Tag Cursor: boot_info_get_next_tag.  The result is the address of the   *)
(* next tag, or NULL.                                                      *)
(***************************************************************************)
\* the cursor without the test of the rounded size
boot_info_get_next_tag_unchecked(t) ==
  LET first_tag     == Ptr(blob.info, SizeofBootInfo)
      size          == TagSize(t)
      aligned_size  == ALIGN_UP(size, 8)
      next_tag_addr == Add(t, Zext(aligned_size, 8))
  IN  IF t = NULL
      THEN IF Gt(Ptr(first_tag, SizeofTag), boot_info_end) THEN NULL
           ELSE first_tag
      ELSE IF TagType(t) = DB_TAG_END THEN NULL
      ELSE IF Lt(Zext(size, 8), u64(SizeofTag)) THEN NULL
      ELSE IF Gt(Ptr(next_tag_addr, SizeofTag), boot_info_end) THEN NULL
      ELSE next_tag_addr

boot_info_get_next_tag(t) ==
  LET first_tag     == Ptr(blob.info, SizeofBootInfo)
      size          == TagSize(t)
      aligned_size  == ALIGN_UP(size, 8)
      next_tag_addr == Add(t, Zext(aligned_size, 8))
  IN  IF t = NULL
      THEN IF Gt(Ptr(first_tag, SizeofTag), boot_info_end) THEN NULL
           ELSE first_tag
      ELSE IF TagType(t) = DB_TAG_END THEN NULL
      ELSE IF Lt(Zext(size, 8), u64(SizeofTag)) THEN NULL
      ELSE IF Lt(aligned_size, size) THEN NULL
      ELSE IF Gt(Ptr(next_tag_addr, SizeofTag), boot_info_end) THEN NULL
      ELSE next_tag_addr

\* the loads the cursor performs: info->total_size, then tag->type and,
\* for a tag that is not the end tag, tag->size
CursorLoads(t) ==
  {<<Ptr(blob.info, 4), 4>>}
    \cup (IF t = NULL THEN {} ELSE {<<t, 2>>})
    \cup (IF t # NULL /\ TagType(t) # DB_TAG_END THEN {<<Ptr(t, 4), 4>>} ELSE {})

\* some load of the set reaches outside [info, info + total_size)
Outside(loads) == \E l \in loads : ~LoadInBlob(l[1], l[2])

\* some load of the set reaches outside the header, [info, info + 16)
PastHeader(loads) ==
  \E l \in loads : \E i \in 0..(l[2] - 1) :
    \/ Lt(Ptr(l[1], i), blob.info)
    \/ Ge(Ptr(l[1], i), Ptr(blob.info, SizeofBootInfo))

(***************************************************************************)
(* Tag Interpreter: the cases of the switch in boot_info_parse.  Each case *)
(* yields the record after the case, whether it recorded the tag, and the  *)
(* loads it performed.                                                     *)
(***************************************************************************)
Skip(p, loads) == [rec |-> p, stored |-> FALSE, loads |-> loads]
Store(p, loads) == [rec |-> p, stored |-> TRUE, loads |-> loads]

\* the loop over the memory map entries, from index i with running total
RECURSIVE MmapLoop(_, _, _, _, _)
MmapLoop(entries, entry_size, entry_count, i, total_usable) ==
  IF ~Lt(i, entry_count)
  THEN [total |-> total_usable, loads |-> {}, totals |-> <<>>]
  ELSE LET entry_ptr == Add(entries, Zext(Mul(i, entry_size), 8))
           usable    == Rd(Ptr(entry_ptr, 16), 4) = u32(DB_MEM_USABLE)
           length    == Rd(Ptr(entry_ptr, 8), 8)
           new_total == IF usable
                        THEN safe_add_u64(total_usable, length, total_usable)
                        ELSE total_usable
           rest      == MmapLoop(entries, entry_size, entry_count,
                                 Add(i, u32(1)), new_total)
       IN  [total |-> rest.total,
            loads |-> rest.loads \cup {<<Ptr(entry_ptr, 16), 4>>}
                        \cup (IF usable THEN {<<Ptr(entry_ptr, 8), 8>>}
                              ELSE {}),
            totals |-> <<new_total>> \o rest.totals]

\* total_usable at the end of each turn of the loop over the entries of
\* the memory map at t
MmapTotals(t) ==
  MmapLoop(Ptr(t, 16), Rd(Ptr(t, 8), 4), Rd(Ptr(t, 12), 4), u32(0),
           u64(0)).totals

\* the memory map case skipping a map that announces no entry
CaseMemoryMapNonEmpty(t, p) ==
  LET hdr         == {<<t, 2>>, <<Ptr(t, 4), 4>>}
      entry_size  == Rd(Ptr(t, 8), 4)
      entry_count == Rd(Ptr(t, 12), 4)
      loop        == MmapLoop(Ptr(t, 16), entry_size, entry_count, u32(0),
                              u64(0))
  IN  IF Lt(Zext(TagSize(t), 8), u64(SizeofTag + 8)) THEN Skip(p, hdr)
      ELSE IF Lt(Zext(entry_size, 8), u64(SizeofMmapEntry))
           THEN Skip(p, hdr \cup {<<Ptr(t, 8), 4>>})
      ELSE IF IsZero(entry_count)
           THEN Skip(p, hdr \cup {<<Ptr(t, 8), 4>>, <<Ptr(t, 12), 4>>})
      ELSE Store([p EXCEPT !.memory_map = t,
                           !.has_memory_map = TRUE,
                           !.total_usable_memory_mb =
                              Trunc(Shr20(loop.total), 4)],
                 hdr \cup {<<Ptr(t, 8), 4>>, <<Ptr(t, 12), 4>>}
                     \cup loop.loads)

CaseMemoryMap(t, p) ==
  LET hdr         == {<<t, 2>>, <<Ptr(t, 4), 4>>}
      entry_size  == Rd(Ptr(t, 8), 4)
      entry_count == Rd(Ptr(t, 12), 4)
      loop        == MmapLoop(Ptr(t, 16), entry_size, entry_count, u32(0),
                              u64(0))
  IN  IF Lt(Zext(TagSize(t), 8), u64(SizeofTag + 8)) THEN Skip(p, hdr)
      ELSE IF Lt(Zext(entry_size, 8), u64(SizeofMmapEntry))
           THEN Skip(p, hdr \cup {<<Ptr(t, 8), 4>>})
      ELSE Store([p EXCEPT !.memory_map = t,
                           !.has_memory_map = TRUE,
                           !.total_usable_memory_mb =
                              Trunc(Shr20(loop.total), 4)],
                 hdr \cup {<<Ptr(t, 8), 4>>, <<Ptr(t, 12), 4>>}
                     \cup loop.loads)

\* the framebuffer case without the test of bpp
CaseFramebufferAnyBpp(t, p) ==
  LET hdr    == {<<t, 2>>, <<Ptr(t, 4), 4>>}
      width  == {<<Ptr(t, 16), 4>>}
      height == {<<Ptr(t, 20), 4>>}
      addr   == {<<Ptr(t, 8), 8>>}
  IN  IF Lt(Zext(TagSize(t), 8), u64(SizeofTagFramebuffer)) THEN Skip(p, hdr)
      ELSE IF IsZero(Rd(Ptr(t, 16), 4)) THEN Skip(p, hdr \cup width)
      ELSE IF IsZero(Rd(Ptr(t, 20), 4))
           THEN Skip(p, hdr \cup width \cup height)
      ELSE IF IsZero(Rd(Ptr(t, 8), 8))
           THEN Skip(p, hdr \cup width \cup height \cup addr)
      ELSE Store([p EXCEPT !.framebuffer = t, !.has_framebuffer = TRUE],
                 hdr \cup width \cup height \cup addr)

CaseFramebuffer(t, p) ==
  LET hdr    == {<<t, 2>>, <<Ptr(t, 4), 4>>}
      width  == {<<Ptr(t, 16), 4>>}
      height == {<<Ptr(t, 20), 4>>}
      bpp    == {<<Ptr(t, 28), 1>>}
      addr   == {<<Ptr(t, 8), 8>>}
  IN  IF Lt(Zext(TagSize(t), 8), u64(SizeofTagFramebuffer)) THEN Skip(p, hdr)
      ELSE IF IsZero(Rd(Ptr(t, 16), 4)) THEN Skip(p, hdr \cup width)
      ELSE IF IsZero(Rd(Ptr(t, 20), 4))
           THEN Skip(p, hdr \cup width \cup height)
      ELSE IF IsZero(Rd(Ptr(t, 28), 1))
           THEN Skip(p, hdr \cup width \cup height \cup bpp)
      ELSE IF IsZero(Rd(Ptr(t, 8), 8))
           THEN Skip(p, hdr \cup width \cup height \cup bpp \cup addr)
      ELSE Store([p EXCEPT !.framebuffer = t, !.has_framebuffer = TRUE],
                 hdr \cup width \cup height \cup bpp \cup addr)

\* a search that reports a zero byte without looking
ScanNullBlind(str, len, i) == [found |-> TRUE, loads |-> {}]

\* the search for a zero byte among the len bytes at str, from index i
RECURSIVE ScanNull(_, _, _)
ScanNull(str, len, i) ==
  IF ~Lt(i, len) THEN [found |-> FALSE, loads |-> {}]
  ELSE LET a == Add(str, Zext(i, 8))
       IN  IF Mem(a) = 0 THEN [found |-> TRUE, loads |-> {<<a, 1>>}]
           ELSE LET rest == ScanNull(str, len, Add(i, u32(1)))
                IN  [found |-> rest.found,
                     loads |-> rest.loads \cup {<<a, 1>>}]

CaseCmdline(t, p) ==
  LET hdr             == {<<t, 2>>, <<Ptr(t, 4), 4>>}
      cmdline_max_len == Sub(TagSize(t), u32(SizeofTag))
      scan            == ScanNull(Ptr(t, 8), cmdline_max_len, u32(0))
  IN  IF Le(Zext(TagSize(t), 8), u64(SizeofTag)) THEN Skip(p, hdr)
      ELSE IF ~scan.found THEN Skip(p, hdr \cup scan.loads)
      ELSE Store([p EXCEPT !.cmdline = t, !.has_cmdline = TRUE],
                 hdr \cup scan.loads)

\* the ACPI case without the test of the tag's size
CaseAcpiRsdpAnySize(t, p) ==
  LET hdr == {<<t, 2>>, <<Ptr(t, 4), 4>>}
  IN  IF IsZero(Rd(Ptr(t, 8), 8))
      THEN Skip(p, hdr \cup {<<Ptr(t, 8), 8>>})
      ELSE Store([p EXCEPT !.acpi_rsdp = t, !.has_acpi = TRUE],
                 hdr \cup {<<Ptr(t, 8), 8>>})

\* the ACPI case taking a zero address for the withdrawal of the table
CaseAcpiRsdpClearing(t, p) ==
  LET hdr == {<<t, 2>>, <<Ptr(t, 4), 4>>}
  IN  IF Lt(Zext(TagSize(t), 8), u64(SizeofTagAcpiRsdp)) THEN Skip(p, hdr)
      ELSE IF IsZero(Rd(Ptr(t, 8), 8))
           THEN Store([p EXCEPT !.acpi_rsdp = NULL, !.has_acpi = FALSE],
                      hdr \cup {<<Ptr(t, 8), 8>>})
      ELSE Store([p EXCEPT !.acpi_rsdp = t, !.has_acpi = TRUE],
                 hdr \cup {<<Ptr(t, 8), 8>>})

CaseAcpiRsdp(t, p) ==
  LET hdr == {<<t, 2>>, <<Ptr(t, 4), 4>>}
  IN  IF Lt(Zext(TagSize(t), 8), u64(SizeofTagAcpiRsdp)) THEN Skip(p, hdr)
      ELSE IF IsZero(Rd(Ptr(t, 8), 8))
           THEN Skip(p, hdr \cup {<<Ptr(t, 8), 8>>})
      ELSE Store([p EXCEPT !.acpi_rsdp = t, !.has_acpi = TRUE],
                 hdr \cup {<<Ptr(t, 8), 8>>})

\* the SMP case storing the reference and the count but not the flag
CaseSmpNoFlag(t, p) ==
  LET hdr == {<<t, 2>>, <<Ptr(t, 4), 4>>}
  IN  IF Lt(Zext(TagSize(t), 8), u64(SizeofTag + 8)) THEN Skip(p, hdr)
      ELSE IF IsZero(Rd(Ptr(t, 8), 4))
           THEN Skip(p, hdr \cup {<<Ptr(t, 8), 4>>})
      ELSE Store([p EXCEPT !.smp = t, !.cpu_count = Rd(Ptr(t, 8), 4)],
                 hdr \cup {<<Ptr(t, 8), 4>>})

CaseSmp(t, p) ==
  LET hdr == {<<t, 2>>, <<Ptr(t, 4), 4>>}
  IN  IF Lt(Zext(TagSize(t), 8), u64(SizeofTag + 8)) THEN Skip(p, hdr)
      ELSE IF IsZero(Rd(Ptr(t, 8), 4))
           THEN Skip(p, hdr \cup {<<Ptr(t, 8), 4>>})
      ELSE Store([p EXCEPT !.smp = t, !.has_smp = TRUE,
                           !.cpu_count = Rd(Ptr(t, 8), 4)],
                 hdr \cup {<<Ptr(t, 8), 4>>})

\* the initrd case without the test of start
CaseInitrdAnyStart(t, p) ==
  LET hdr == {<<t, 2>>, <<Ptr(t, 4), 4>>}
  IN  IF Lt(Zext(TagSize(t), 8), u64(SizeofTagInitrd)) THEN Skip(p, hdr)
      ELSE IF IsZero(Rd(Ptr(t, 16), 8))
           THEN Skip(p, hdr \cup {<<Ptr(t, 16), 8>>})
      ELSE Store([p EXCEPT !.initrd = t, !.has_initrd = TRUE],
                 hdr \cup {<<Ptr(t, 16), 8>>})

CaseInitrd(t, p) ==
  LET hdr == {<<t, 2>>, <<Ptr(t, 4), 4>>}
  IN  IF Lt(Zext(TagSize(t), 8), u64(SizeofTagInitrd)) THEN Skip(p, hdr)
      ELSE IF IsZero(Rd(Ptr(t, 8), 8))
           THEN Skip(p, hdr \cup {<<Ptr(t, 8), 8>>})
      ELSE IF IsZero(Rd(Ptr(t, 16), 8))
           THEN Skip(p, hdr \cup {<<Ptr(t, 8), 8>>, <<Ptr(t, 16), 8>>})
      ELSE Store([p EXCEPT !.initrd = t, !.has_initrd = TRUE],
                 hdr \cup {<<Ptr(t, 8), 8>>, <<Ptr(t, 16), 8>>})

CaseBootloader(t, p) ==
  LET hdr          == {<<t, 2>>, <<Ptr(t, 4), 4>>}
      name_max_len == Sub(TagSize(t), u32(SizeofTag))
      scan         == ScanNull(Ptr(t, 8), name_max_len, u32(0))
  IN  IF Le(Zext(TagSize(t), 8), u64(SizeofTag)) THEN Skip(p, hdr)
      ELSE IF ~scan.found THEN Skip(p, hdr \cup scan.loads)
      ELSE Store([p EXCEPT !.bootloader = t], hdr \cup scan.loads)

(***************************************************************************)
(* The blobs the model is run on.                                          *)
(***************************************************************************)
MaxTags == 2          \* longest tag sequence of the general family

\* payload padded with zero bytes to a multiple of 8
Pad8(p) == p \o [i \in 1..((8 - (Len(p) % 8)) % 8) |-> 0]

\* the bytes of one tag: header {type, flags, size}, then the payload
Tag(type, flags, size, payload) ==
  u16(type) \o u16(flags) \o size \o Pad8(payload)

MmapEntry(base, length, type, attributes) ==
  base \o length \o u32(type) \o u32(attributes)

EndTag      == Tag(DB_TAG_END, 0, u32(8), <<>>)
\* one usable entry of 0x10000000 bytes
MmapOne     == Tag(DB_TAG_MEMORY_MAP, 0, u32(40),
                   u32(24) \o u32(1)
                     \o MmapEntry(u64(0), u64(268435456), DB_MEM_USABLE, 0))
\* announces one entry but ends after entry_count
MmapBare    == Tag(DB_TAG_MEMORY_MAP, 0, u32(16), u32(24) \o u32(1))
\* entry_size below sizeof(struct db_mmap_entry)
MmapNarrow  == Tag(DB_TAG_MEMORY_MAP, 0, u32(16), u32(16) \o u32(0))
CmdlineOK   == Tag(DB_TAG_CMDLINE, 0, u32(11), <<97, 98, 0>>)
\* five payload bytes, none of them zero
CmdlineNoNul == Tag(DB_TAG_CMDLINE, 0, u32(13), <<97, 98, 99, 100, 101>>)
Unknown     == Tag(32768, 0, u32(8), <<>>)
\* size 2^32 - 7: rounding it up to a multiple of 8 wraps
UnknownMax  == Tag(32768, 0, <<249, 255, 255, 255>>, <<>>)
\* size 2^31
UnknownHalf == Tag(32768, 0, <<0, 0, 0, 128>>, <<>>)
\* size below the size of the tag header
Undersized  == Tag(32768, 0, u32(4), <<>>)
FramebufferOK == Tag(DB_TAG_FRAMEBUFFER, 0, u32(40),
                     u64(3221225) \o u32(1024) \o u32(768) \o u32(4096)
                       \o <<32, 16, 8, 8, 8, 0, 8, 24, 8, 0, 0, 0>>)
FramebufferNoAddr == Tag(DB_TAG_FRAMEBUFFER, 0, u32(40),
                     u64(0) \o u32(1024) \o u32(768) \o u32(4096)
                       \o <<32, 16, 8, 8, 8, 0, 8, 24, 8, 0, 0, 0>>)
AcpiOK      == Tag(DB_TAG_ACPI_RSDP, 0, u32(16), u64(917504))
AcpiZero    == Tag(DB_TAG_ACPI_RSDP, 0, u32(16), u64(0))
\* two processors: cpu_count, bsp_id, then {id, flags} of each
SmpOK       == Tag(DB_TAG_SMP, 0, u32(32),
                   u32(2) \o u32(0) \o u32(0) \o u32(3) \o u32(1) \o u32(1))
SmpZero     == Tag(DB_TAG_SMP, 0, u32(16), u32(0) \o u32(0))
InitrdOK    == Tag(DB_TAG_INITRD, 0, u32(24), u64(2097152) \o u64(4096))
InitrdEmpty == Tag(DB_TAG_INITRD, 0, u32(24), u64(2097152) \o u64(0))
BootloaderOK == Tag(DB_TAG_BOOTLOADER, 0, u32(11), <<68, 66, 0>>)
BootloaderNoNul == Tag(DB_TAG_BOOTLOADER, 0, u32(10), <<68, 66>>)
\* tags whose size is below what their case asks for: six with a size from
\* the size of the tag header on, two with a size below it
ShortTags ==
  {Tag(DB_TAG_CMDLINE, 0, u32(8), <<>>),
   Tag(DB_TAG_FRAMEBUFFER, 0, u32(32),
       u64(3221225) \o u32(1024) \o u32(768) \o u32(4096)
         \o <<32, 16, 8, 8>>),
   Tag(DB_TAG_ACPI_RSDP, 0, u32(8), <<>>),
   Tag(DB_TAG_SMP, 0, u32(12), u32(2)),
   Tag(DB_TAG_INITRD, 0, u32(16), u64(2097152)),
   Tag(DB_TAG_BOOTLOADER, 0, u32(8), <<>>),
   Tag(DB_TAG_CMDLINE, 0, u32(4), <<>>),
   Tag(DB_TAG_SMP, 0, u32(0), <<>>)}

\* tags of the general family
Pool == {EndTag, MmapOne, MmapBare, CmdlineOK, CmdlineNoNul, Unknown,
         UnknownMax, Undersized}

\* tags of the other kinds, each run in front of a memory map and an end tag
Kinds == {MmapNarrow, FramebufferOK, FramebufferNoAddr, AcpiOK, AcpiZero,
          SmpOK, SmpZero, InitrdOK, InitrdEmpty, BootloaderOK,
          BootloaderNoNul, Unknown, Undersized} \cup ShortTags

\* a command line whose declared size reaches 8 bytes past its payload
CmdlineLong == Tag(DB_TAG_CMDLINE, 0, u32(24),
                   <<97, 98, 99, 100, 101, 102, 103, 104>>)
\* a command line whose eight payload bytes read as the length 2^20
CmdlineMiB  == Tag(DB_TAG_CMDLINE, 0, u32(16), <<0, 0, 16, 0, 0, 0, 0, 0>>)

\* memory maps of several entries: a sum that does not fit in 64 bits, an
\* entry that is not usable and a usable one behind them; a sum of exactly
\* 2^64 - 1 and one more byte; five entries 2^30 bytes apart
MmapSums ==
  {Tag(DB_TAG_MEMORY_MAP, 0, u32(112),
       u32(24) \o u32(4)
         \o MmapEntry(u64(0), <<0, 0, 16, 0, 0, 0, 0, 128>>,
                      DB_MEM_USABLE, 0)
         \o MmapEntry(u64(0), <<0, 0, 80, 0, 0, 0, 0, 128>>,
                      DB_MEM_USABLE, 0)
         \o MmapEntry(u64(0), u64(7340032), 2, 0)
         \o MmapEntry(u64(0), u64(3145728), DB_MEM_USABLE, 0)),
   Tag(DB_TAG_MEMORY_MAP, 0, u32(88),
       u32(24) \o u32(3)
         \o MmapEntry(u64(0), u64(1), DB_MEM_USABLE, 0)
         \o MmapEntry(u64(0), <<254, 255, 255, 255, 255, 255, 255, 255>>,
                      DB_MEM_USABLE, 0)
         \o MmapEntry(u64(0), u64(1), DB_MEM_USABLE, 0)),
   Tag(DB_TAG_MEMORY_MAP, 0, u32(40),
       <<0, 0, 0, 64>> \o u32(5)
         \o MmapEntry(u64(0), u64(268435456), DB_MEM_USABLE, 0))}

\* end tags with other flags and sizes: size 0, size 24 with 16 bytes
\* behind the header, size 2^32 - 1
EndTags ==
  {Tag(DB_TAG_END, 1, u32(0), <<>>),
   Tag(DB_TAG_END, 0, u32(24), MmapEntry(u64(0), u64(0), 0, 0)),
   Tag(DB_TAG_END, 65535, U32_MAX, <<>>)}

\* memory maps at the edges of the two tests: no entry at all, a size of 8
\* and of 12, an entry_size of 23 with room for an entry
MmapEdges ==
  {Tag(DB_TAG_MEMORY_MAP, 0, u32(16), u32(24) \o u32(0)),
   Tag(DB_TAG_MEMORY_MAP, 0, u32(8), <<>>),
   Tag(DB_TAG_MEMORY_MAP, 0, u32(12), u32(24)),
   Tag(DB_TAG_MEMORY_MAP, 0, u32(40),
       u32(23) \o u32(1)
         \o MmapEntry(u64(0), u64(268435456), DB_MEM_USABLE, 0))}

\* framebuffers with one field zero: width, height, bpp; pitch together
\* with all the channel fields; and one of size 48 with an address of 2^63
FramebufferEdges ==
  LET fb(size, address, width, height, pitch, bpp, channels) ==
        Tag(DB_TAG_FRAMEBUFFER, 0, u32(size),
            address \o u32(width) \o u32(height) \o u32(pitch)
              \o <<bpp>> \o channels \o <<0, 0, 0>>)
      rgb == <<16, 8, 8, 8, 0, 8, 24, 8>>
      none == <<0, 0, 0, 0, 0, 0, 0, 0>>
  IN  {fb(40, u64(3221225), 0, 768, 4096, 32, rgb),
       fb(40, u64(3221225), 1024, 0, 4096, 32, rgb),
       fb(40, u64(3221225), 1024, 768, 4096, 0, rgb),
       fb(40, u64(3221225), 1024, 768, 0, 32, none),
       fb(48, <<0, 0, 0, 0, 0, 0, 0, 128>>, 1, 1, 1, 1, none) \o u64(0)}

\* ACPI and initrd tags at the limits of their tests: an initrd without
\* start behind a recorded ACPI tag, and the other way round an ACPI tag
\* of size 15 behind a recorded initrd; an initrd of size 23; an ACPI tag
\* of size 24 and an initrd of size 32, both with all bits of the tested
\* fields but the highest zero
AddressEdges ==
  LET high == <<0, 0, 0, 0, 0, 0, 0, 128>>
  IN  {AcpiOK \o Tag(DB_TAG_INITRD, 0, u32(24), u64(0) \o u64(4096)),
       InitrdOK \o Tag(DB_TAG_ACPI_RSDP, 0, u32(15),
                       <<0, 0, 14, 0, 0, 0, 0>>),
       Tag(DB_TAG_INITRD, 0, u32(23),
           u64(2097152) \o <<0, 16, 0, 0, 0, 0, 0>>),
       Tag(DB_TAG_ACPI_RSDP, 0, u32(24), high \o u64(0))
         \o Tag(DB_TAG_INITRD, 0, u32(32), high \o high \o u64(0))}

\* tags of the types the switch has no case for: the four named ones, the
\* first value behind the enumeration, the last one below 0x8000 and the
\* last one of all; each carries what a recorded ACPI tag would carry
UnlistedTags ==
  {Tag(type, 0, u32(16), u64(917504))
     : type \in {DB_TAG_MODULES, DB_TAG_BOOT_TIME, DB_TAG_KERNEL_FILE,
                 DB_TAG_EFI_SYSTAB, 12, 32767, 65535}}

\* two tags of one kind: the second one rejected, or both recorded; and
\* a memory map without entries, which Scenarios puts in front of another
Repeats ==
  {FramebufferOK \o FramebufferNoAddr, AcpiOK \o AcpiZero,
   InitrdOK \o InitrdEmpty, CmdlineOK \o CmdlineNoNul,
   BootloaderOK \o BootloaderNoNul,
   AcpiOK \o Tag(DB_TAG_ACPI_RSDP, 0, u32(16), u64(983040)),
   CmdlineOK \o Tag(DB_TAG_CMDLINE, 0, u32(10), <<113, 0>>),
   Tag(DB_TAG_MEMORY_MAP, 0, u32(16), u32(24) \o u32(0))}

\* longer sequences: a skipped tag in front of the memory map, tags between
\* the memory map and the end tag, a memory map whose entry lies in the
\* tags that follow it, two SMP tags (the second one announcing four
\* processors, or none), an SMP tag behind the end tag, a memory map in
\* front of each of the other end tags, a memory map whose entry lies in
\* the end tag and the two tags behind it, tags of size 2^32 - 1 and
\* 2^32 - 6 in front of a memory map, each memory map of MmapEdges alone
\* and behind a recorded one, each framebuffer of FramebufferEdges and
\* each sequence of AddressEdges in front of a memory map, each tag of
\* UnlistedTags behind one, each pair of Repeats in front of one
Scenarios == {CmdlineNoNul \o MmapOne \o EndTag,
              MmapOne \o CmdlineOK \o Unknown \o EndTag,
              MmapOne \o Undersized \o EndTag,
              MmapBare \o CmdlineMiB \o CmdlineOK \o EndTag,
              MmapOne \o CmdlineLong,
              MmapOne \o MmapBare \o EndTag,
              MmapOne \o EndTag \o MmapBare,
              SmpOK \o Tag(DB_TAG_SMP, 0, u32(16), u32(4) \o u32(0))
                \o MmapOne \o EndTag,
              SmpOK \o SmpZero \o MmapOne \o EndTag,
              MmapOne \o EndTag \o SmpOK}
               \cup {m \o EndTag : m \in MmapSums}
               \cup {MmapOne \o e : e \in EndTags}
               \cup {m \o EndTag : m \in MmapEdges \cup {MmapNarrow}}
               \cup {MmapOne \o m \o EndTag : m \in MmapEdges}
               \cup {f \o MmapOne \o EndTag
                       : f \in FramebufferEdges \cup AddressEdges}
               \cup {MmapOne \o u \o EndTag : u \in UnlistedTags}
               \cup {r \o MmapOne \o EndTag : r \in Repeats}
               \cup {MmapBare \o EndTag \o Unknown \o Unknown,
                     Tag(32768, 0, U32_MAX, <<>>) \o MmapOne \o EndTag,
                     Tag(4, 0, <<250, 255, 255, 255>>, <<0>>)
                       \o MmapOne \o EndTag}

RECURSIVE Flatten(_)
Flatten(ss) == IF ss = <<>> THEN <<>> ELSE Head(ss) \o Flatten(Tail(ss))

Bodies == {Flatten(ss) : ss \in UNION {[1..n -> Pool] : n \in 1..MaxTags}}

\* a low physical address, and one inside the kernel's own mapping
\* (KERNEL_VMA = 0xFFFFFFFF80000000)
InfoLow  == u64(1048576)
InfoHigh == <<0, 0, 32, 128, 255, 255, 255, 255>>

OutsidePatterns == {<<0, 0, 0, 0, 0, 0, 0, 0>>, <<1, 0, 0, 0, 1, 0, 0, 0>>}

Blob(info, total, pad, body) ==
  [info |-> info, magic |-> u32(DB_BOOT_MAGIC), total_size |-> total,
   version |-> u32(DB_PROTOCOL_VERSION), reserved |-> u32(0),
   pad |-> pad, body |-> body]

\* the length of what the bootloader laid out: header, fillers, body
Extent(pad, body) == SizeofBootInfo + 8 * pad + Len(body)

GeneralBlobs ==
  {Blob(InfoLow, u32(Extent(0, body) - cut), 0, body) :
     body \in Bodies, cut \in {0, 8}}

KindBlobs ==
  {Blob(InfoLow, u32(Extent(0, k \o MmapOne \o EndTag)), 0,
        k \o MmapOne \o EndTag) : k \in Kinds}

HighBlobs ==
  {Blob(InfoHigh, u32(Extent(0, body)), 0, body) :
     body \in {MmapOne \o EndTag, UnknownHalf \o EndTag,
               MmapOne \o UnknownHalf, UnknownMax \o EndTag}}

ScenarioBlobs ==
  {Blob(InfoLow, u32(Extent(0, body)), 0, body) : body \in Scenarios}

\* max_tags or more tags: filler tags in front of a short body
CapBlobs ==
  {Blob(InfoLow, u32(Extent(max_tags - 3, MmapOne \o EndTag)),
        max_tags - 3, MmapOne \o EndTag),
   Blob(InfoLow, u32(Extent(max_tags - 2, MmapOne \o EndTag)),
        max_tags - 2, MmapOne \o EndTag),
   Blob(InfoLow, u32(Extent(max_tags - 1, MmapOne \o EndTag)),
        max_tags - 1, MmapOne \o EndTag),
   Blob(InfoLow, u32(Extent(max_tags, Unknown)), max_tags, Unknown)}

HeaderBlobs ==
  LET good == Blob(InfoLow, u32(64), 0, MmapOne \o EndTag)
  IN  {[good EXCEPT !.info = NULL],
       [good EXCEPT !.magic = u32(DB_BOOT_MAGIC + 1)],
       [good EXCEPT !.magic = u32(0)],
       [good EXCEPT !.version = u32(0)],
       [good EXCEPT !.version = u32(2)],
       [good EXCEPT !.reserved = u32(1)],
       [good EXCEPT !.reserved = <<0, 0, 0, 1>>]}
    \cup {[good EXCEPT !.total_size = t] :
            t \in {u32(0), u32(23), u32(24), u32(32), u32(MaxTotalSize),
                   u32(MaxTotalSize + 1), U32_MAX}}

Blobs == GeneralBlobs \cup KindBlobs \cup ScenarioBlobs \cup HighBlobs
           \cup HeaderBlobs

\* what the caller's record may hold before the call (it is uninitialized
\* in kernel_main)
Stale ==
  [has_memory_map |-> TRUE, has_framebuffer |-> TRUE, has_cmdline |-> TRUE,
   has_acpi |-> TRUE, has_smp |-> TRUE, has_initrd |-> TRUE,
   memory_map |-> u64(4096), framebuffer |-> u64(4096),
   cmdline |-> u64(4096), acpi_rsdp |-> u64(4096), smp |-> u64(4096),
   initrd |-> u64(4096), bootloader |-> u64(4096),
   total_usable_memory_mb |-> u32(7), cpu_count |-> u32(0)]

Blank ==
  [has_memory_map |-> FALSE, has_framebuffer |-> FALSE,
   has_cmdline |-> FALSE, has_acpi |-> FALSE, has_smp |-> FALSE,
   has_initrd |-> FALSE,
   memory_map |-> NULL, framebuffer |-> NULL, cmdline |-> NULL,
   acpi_rsdp |-> NULL, smp |-> NULL, initrd |-> NULL, bootloader |-> NULL,
   total_usable_memory_mb |-> u32(0), cpu_count |-> u32(0)]

Records == {Stale, Blank}

(***************************************************************************)
(* boot_info_parse, step by step.                                          *)
(***************************************************************************)
Start ==
  /\ parsed \in Records
  /\ tag = NULL
  /\ found_end_tag = FALSE
  /\ tag_count = 0
  /\ pc = "call"
  /\ valid = FALSE
  /\ ret = FALSE
  /\ call = 1
  /\ prev = [kind |-> "none"]
  /\ oob = FALSE
  /\ past_header = FALSE
  /\ totals = <<>>
  /\ visited = 0
  /\ endAt = 0
  /\ mmapAt = 0
  /\ chain = <<>>
  /\ kernel_main = [at |-> "parse", validated |-> FALSE, called |-> FALSE,
                    initialized |-> FALSE, shown |-> 0]

Init ==
  /\ blob \in Blobs
  /\ outside \in OutsidePatterns
  /\ Start

ghosts == <<oob, visited, endAt, mmapAt, chain, past_header, totals>>
locals == <<tag, found_end_tag, tag_count, valid>>
env    == <<blob, outside, call, prev, kernel_main>>

\* Step 1 without its return: the parse goes on whatever the validator says
ValidateNoReturn ==
  /\ pc = "call"
  /\ valid' = boot_info_validate(blob)
  /\ pc' = "init"
  /\ past_header' = (past_header \/ PastHeader(ValidateLoads(blob)))
  /\ UNCHANGED <<parsed, tag, found_end_tag, tag_count, ret, env, oob,
                 visited, endAt, mmapAt, totals, chain>>

\* Step 1 giving the record its defaults before it returns false
ValidateResetting ==
  /\ pc = "call"
  /\ valid' = boot_info_validate(blob)
  /\ IF valid'
     THEN pc' = "init" /\ ret' = ret /\ parsed' = parsed
     ELSE /\ pc' = "done" /\ ret' = FALSE
          /\ parsed' = [Blank EXCEPT !.cpu_count = u32(1)]
  /\ past_header' = (past_header \/ PastHeader(ValidateLoads(blob)))
  /\ UNCHANGED <<tag, found_end_tag, tag_count, env, oob, visited,
                 endAt, mmapAt, totals, chain>>

\* Step 1: if (!boot_info_validate(info)) return false;
Validate ==
  /\ pc = "call"
  /\ valid' = boot_info_validate(blob)
  /\ IF valid'
     THEN pc' = "init" /\ ret' = ret
     ELSE pc' = "done" /\ ret' = FALSE
  /\ past_header' = (past_header \/ PastHeader(ValidateLoads(blob)))
  /\ UNCHANGED <<parsed, tag, found_end_tag, tag_count, env, oob, visited,
                 endAt, mmapAt, totals, chain>>

\* Step 2 with cpu_count cleared like the other fields
DefaultsNoCpu ==
  [has_memory_map |-> FALSE, has_framebuffer |-> FALSE,
   has_cmdline |-> FALSE, has_acpi |-> FALSE, has_smp |-> FALSE,
   has_initrd |-> FALSE,
   memory_map |-> NULL, framebuffer |-> NULL, cmdline |-> NULL,
   acpi_rsdp |-> NULL, smp |-> NULL, initrd |-> NULL, bootloader |-> NULL,
   total_usable_memory_mb |-> u32(0), cpu_count |-> u32(0)]

\* the values Step 2 stores
Defaults ==
  [has_memory_map |-> FALSE, has_framebuffer |-> FALSE,
   has_cmdline |-> FALSE, has_acpi |-> FALSE, has_smp |-> FALSE,
   has_initrd |-> FALSE,
   memory_map |-> NULL, framebuffer |-> NULL, cmdline |-> NULL,
   acpi_rsdp |-> NULL, smp |-> NULL, initrd |-> NULL, bootloader |-> NULL,
   total_usable_memory_mb |-> u32(0), cpu_count |-> u32(1)]

\* Step 2 and the declarations of Step 3
InitParsed ==
  /\ pc = "init"
  /\ parsed' = Defaults
  /\ tag' = NULL
  /\ found_end_tag' = FALSE
  /\ tag_count' = 0
  /\ pc' = "loop"
  /\ UNCHANGED <<valid, ret, env, ghosts>>

\* the address of the first byte of body
BodyStart == Ptr(blob.info, SizeofBootInfo + 8 * blob.pad)

\* while ((tag = boot_info_get_next_tag(info, tag)) != NULL)
NextTag ==
  /\ pc = "loop"
  /\ LET next == boot_info_get_next_tag(tag)
     IN  /\ tag' = next
         /\ oob' = (oob \/ Outside(CursorLoads(tag)))
         /\ past_header' = (past_header \/ PastHeader(CursorLoads(tag)))
         /\ IF next = NULL
            THEN /\ pc' = "check"
                 /\ UNCHANGED <<visited, endAt, chain>>
            ELSE /\ pc' = "count"
                 /\ visited' = visited + 1
                 /\ endAt' = IF endAt = 0 /\ TagType(next) = DB_TAG_END
                             THEN visited + 1 ELSE endAt
                 /\ chain' = IF InBlob(next) /\ Ge(next, BodyStart)
                             THEN Append(chain, next) ELSE chain
  /\ UNCHANGED <<parsed, found_end_tag, tag_count, valid, ret, env, mmapAt, totals>>

\* the cap test one late, left out, and one early
TooManyLate(n) == n > max_tags + 1
TooManyNever(n) == FALSE
TooManyEarly(n) == n >= max_tags

\* tag_count++; if (tag_count > max_tags) return false;
TooMany(n) == n > max_tags

CountTag ==
  /\ pc = "count"
  /\ tag_count' = tag_count + 1
  /\ IF TooMany(tag_count + 1)
     THEN pc' = "done" /\ ret' = FALSE
     ELSE pc' = "switch" /\ ret' = ret
  /\ UNCHANGED <<parsed, tag, found_end_tag, valid, env, ghosts>>

\* the end of a case: 'continue' when the tag was skipped, otherwise
\* 'break' and the test of found_end_tag after the switch
AfterCase(found) == IF found THEN "check" ELSE "loop"

\* case DB_TAG_END
CaseEnd ==
  /\ pc = "switch"
  /\ TagType(tag) = DB_TAG_END
  /\ found_end_tag' = TRUE
  /\ pc' = AfterCase(TRUE)
  /\ oob' = (oob \/ Outside({<<tag, 2>>}))
  /\ past_header' = (past_header \/ PastHeader({<<tag, 2>>}))
  /\ UNCHANGED <<parsed, tag, tag_count, valid, ret, env, visited, endAt,
                 mmapAt, totals, chain>>

\* a case that validates the tag and records it or skips it
Interpret(type, result) ==
  /\ pc = "switch"
  /\ TagType(tag) = type
  /\ parsed' = result.rec
  /\ pc' = AfterCase(found_end_tag)
  /\ oob' = (oob \/ Outside(result.loads))
  /\ past_header' = (past_header \/ PastHeader(result.loads))
  /\ mmapAt' = IF type = DB_TAG_MEMORY_MAP /\ result.stored
               THEN visited ELSE mmapAt
  /\ totals' = IF type = DB_TAG_MEMORY_MAP /\ result.stored
               THEN MmapTotals(tag) ELSE totals
  /\ UNCHANGED <<locals, ret, env, visited, endAt, chain>>

MemoryMap   == Interpret(DB_TAG_MEMORY_MAP, CaseMemoryMap(tag, parsed))
Framebuffer == Interpret(DB_TAG_FRAMEBUFFER, CaseFramebuffer(tag, parsed))
Cmdline     == Interpret(DB_TAG_CMDLINE, CaseCmdline(tag, parsed))
AcpiRsdp    == Interpret(DB_TAG_ACPI_RSDP, CaseAcpiRsdp(tag, parsed))
Smp         == Interpret(DB_TAG_SMP, CaseSmp(tag, parsed))
Initrd      == Interpret(DB_TAG_INITRD, CaseInitrd(tag, parsed))
Bootloader  == Interpret(DB_TAG_BOOTLOADER, CaseBootloader(tag, parsed))

KnownTypes == {DB_TAG_END, DB_TAG_MEMORY_MAP, DB_TAG_FRAMEBUFFER,
               DB_TAG_CMDLINE, DB_TAG_ACPI_RSDP, DB_TAG_SMP, DB_TAG_INITRD,
               DB_TAG_BOOTLOADER}

\* a default case that gives up on a type it does not know
CaseDefaultFatal ==
  /\ pc = "switch"
  /\ TagType(tag) \notin KnownTypes
  /\ pc' = "done"
  /\ ret' = FALSE
  /\ oob' = (oob \/ Outside({<<tag, 2>>}))
  /\ past_header' = (past_header \/ PastHeader({<<tag, 2>>}))
  /\ UNCHANGED <<parsed, locals, env, visited, endAt, mmapAt, totals, chain>>

\* default: the tag is skipped
CaseDefault ==
  /\ pc = "switch"
  /\ TagType(tag) \notin KnownTypes
  /\ pc' = AfterCase(found_end_tag)
  /\ oob' = (oob \/ Outside({<<tag, 2>>}))
  /\ past_header' = (past_header \/ PastHeader({<<tag, 2>>}))
  /\ UNCHANGED <<parsed, locals, ret, env, visited, endAt, mmapAt, totals, chain>>

\* Step 4 left out, and Step 5 left out
VerdictNoEnd(found, has_memory_map) == has_memory_map
VerdictNoMap(found, has_memory_map) == found

\* Steps 4 and 5: the end tag and the memory map are required
Verdict(found, has_memory_map) ==
  IF ~found THEN FALSE
  ELSE IF ~has_memory_map THEN FALSE
  ELSE TRUE

Finish ==
  /\ pc = "check"
  /\ ret' = Verdict(found_end_tag, parsed.has_memory_map)
  /\ pc' = "done"
  /\ UNCHANGED <<parsed, locals, env, ghosts>>

(***************************************************************************)
(* The caller.  After the first call returns it calls boot_info_parse a    *)
(* second time, on the same blob or on the blob with one tag of unknown    *)
(* type inserted.  Memory outside the blob is not the blob's: it may have  *)
(* changed in between.  prev keeps what the first call returned.           *)
(***************************************************************************)
Restart ==
  /\ call' = 2
  /\ pc' = "call"
  /\ oob' = FALSE
  /\ past_header' = FALSE
  /\ totals' = <<>>
  /\ visited' = 0
  /\ endAt' = 0
  /\ mmapAt' = 0
  /\ chain' = <<>>
  /\ UNCHANGED <<locals, ret, kernel_main>>

\* second call, same blob; the record passed is the one the first call
\* filled, or another one
CallAgain ==
  /\ pc = "done"
  /\ call = 1
  /\ \E rec \in {parsed, Stale} :
       /\ parsed' = rec
       /\ prev' = [kind |-> "same", ret |-> ret, parsed |-> parsed,
                   oob |-> oob, fresh |-> rec # parsed, endAt |-> endAt,
                   at |-> NULL, len |-> 0]
  /\ outside' \in OutsidePatterns
  /\ blob' = blob
  /\ Restart

\* tags of unknown type that the second blob may have in addition
Inserted == {Unknown, Tag(32769, 5, u32(13), <<1, 0, 0, 0, 1>>)}

\* body with the bytes ins put in at address at
InsertAt(body, at, ins) ==
  LET k == Val(Sub(at, BodyStart))
  IN  SubSeq(body, 1, k) \o ins \o SubSeq(body, k + 1, Len(body))

\* second call, on the blob with tag ins inserted at a position the first
\* call visited, the end tag's position at the latest
CallInserted ==
  /\ pc = "done"
  /\ call = 1
  /\ endAt # 0
  /\ \E ins \in Inserted :
       /\ Le(Add(blob.total_size, u32(Len(ins))), u32(MaxTotalSize))
       /\ \/ /\ blob.pad > 0
             /\ blob.pad < max_tags + 1
             /\ blob' = [blob EXCEPT
                           !.pad = @ + 1,
                           !.total_size = Add(@, u32(8))]
             /\ ins = Unknown
             /\ prev' = [kind |-> "insert", ret |-> ret, parsed |-> parsed,
                         oob |-> oob, fresh |-> FALSE, endAt |-> endAt,
                         at |-> Ptr(blob.info, SizeofBootInfo), len |-> 8]
          \/ \E i \in 1..Len(chain) :
               /\ Val(Sub(chain[i], BodyStart)) <= Len(blob.body)
               /\ blob' = [blob EXCEPT
                             !.body = InsertAt(@, chain[i], ins),
                             !.total_size = Add(@, u32(Len(ins)))]
               /\ prev' = [kind |-> "insert", ret |-> ret,
                           parsed |-> parsed, oob |-> oob, fresh |-> FALSE,
                           endAt |-> endAt, at |-> chain[i],
                           len |-> Len(ins)]
  /\ UNCHANGED <<parsed, outside>>
  /\ Restart

\* body with every byte behind the first k bytes replaced: by 255 in
\* every byte, or else by the 32-bit value 1 over and over
TailChanged(body, k, v) ==
  [j \in 1..Len(body) |->
     IF j <= k THEN body[j]
     ELSE IF v = 255 THEN 255
     ELSE IF j % 4 = 1 THEN 1 ELSE 0]

\* second call, on the blob with other bytes behind the type field of the
\* end tag the first call stopped at
CallTailChanged ==
  /\ pc = "done"
  /\ call = 1
  /\ found_end_tag
  /\ InBlob(tag) /\ Ge(tag, BodyStart)
  /\ \E v \in {1, 255} :
       blob' = [blob EXCEPT
                  !.body = TailChanged(@, Val(Sub(tag, BodyStart)) + 2, v)]
  /\ prev' = [kind |-> "tail", ret |-> ret, parsed |-> parsed, oob |-> oob,
              fresh |-> FALSE, endAt |-> endAt, at |-> tag, len |-> 0]
  /\ UNCHANGED <<parsed, outside>>
  /\ Restart

Next ==
  \/ Validate
  \/ InitParsed
  \/ NextTag
  \/ CountTag
  \/ CaseEnd
  \/ MemoryMap
  \/ Framebuffer
  \/ Cmdline
  \/ AcpiRsdp
  \/ Smp
  \/ Initrd
  \/ Bootloader
  \/ CaseDefault
  \/ Finish
  \/ CallAgain
  \/ CallInserted
  \/ CallTailChanged

Spec == Init /\ [][Next]_vars

(***************************************************************************)
(* The same parser on the blobs that hold about max_tags tags, on a blob   *)
(* in the kernel mapping whose first tag claims 2^31 bytes while the       *)
(* memory outside the blob reads as filler tags, and on a blob whose       *)
(* memory map declares an entry that lies in the tags that follow it.      *)
(***************************************************************************)
Overlapping == MmapBare \o CmdlineMiB \o CmdlineOK \o EndTag

InitCap ==
  /\ \/ /\ blob \in CapBlobs
        /\ outside = <<0, 0, 0, 0, 0, 0, 0, 0>>
     \/ /\ blob = Blob(InfoHigh, u32(Extent(0, UnknownHalf \o EndTag)), 0,
                       UnknownHalf \o EndTag)
        /\ outside = PadTag
     \/ /\ blob = Blob(InfoLow, u32(Extent(0, Overlapping)), 0, Overlapping)
        /\ outside = <<0, 0, 0, 0, 0, 0, 0, 0>>
  /\ Start

NextCap ==
  \/ Validate
  \/ InitParsed
  \/ NextTag
  \/ CountTag
  \/ CaseEnd
  \/ MemoryMap
  \/ Cmdline
  \/ CaseDefault
  \/ Finish
  \/ CallInserted

SpecCap == InitCap /\ [][NextCap]_vars

\* boot_info_parse is sequential code that calls nothing that blocks: until
\* it has returned, control moves on from each position to another one
Positions == {"call", "init", "loop", "count", "switch", "check", "done"}

Running == pc # "done" /\ pc' \in Positions \ {pc}

FairSpecCap == SpecCap /\ WF_pc(Running)

(***************************************************************************)
(* kernel_main (kernel/main.c), entered from _start with the pointer the   *)
(* bootloader left in RDI.  kernel_main.at is its position; validated,     *)
(* called and initialized record that boot_info_validate returned true,    *)
(* that console_init was called and that it returned true; shown counts    *)
(* the display steps that wrote to the console.                            *)
(***************************************************************************)
InitMain ==
  /\ blob \in KindBlobs \cup ScenarioBlobs \cup HighBlobs \cup HeaderBlobs
  /\ outside \in OutsidePatterns
  /\ parsed \in Records
  /\ tag = NULL
  /\ found_end_tag = FALSE
  /\ tag_count = 0
  /\ pc = "call"
  /\ valid = FALSE
  /\ ret = FALSE
  /\ call = 1
  /\ prev = [kind |-> "none"]
  /\ oob = FALSE
  /\ past_header = FALSE
  /\ totals = <<>>
  /\ visited = 0
  /\ endAt = 0
  /\ mmapAt = 0
  /\ chain = <<>>
  /\ kernel_main = [at |-> "entry", validated |-> FALSE, called |-> FALSE,
                    initialized |-> FALSE, shown |-> 0]

parser == <<parsed, locals, pc, ret, blob, outside, call, prev, ghosts>>

\* if (boot_info == NULL) for (;;) hlt;
KernelEntry ==
  /\ kernel_main.at = "entry"
  /\ kernel_main' = [kernel_main EXCEPT
                       !.at = IF blob.info = NULL THEN "halt" ELSE "validate"]
  /\ UNCHANGED parser

\* if (!boot_info_validate(boot_info)) for (;;) hlt;
KernelValidate ==
  /\ kernel_main.at = "validate"
  /\ kernel_main' = [kernel_main EXCEPT
                       !.validated = boot_info_validate(blob),
                       !.at = IF boot_info_validate(blob) THEN "parse"
                              ELSE "halt"]
  /\ UNCHANGED parser

\* the steps of boot_info_parse(boot_info, &parsed)
Parsing ==
  /\ kernel_main.at = "parse"
  /\ \/ Validate
     \/ InitParsed
     \/ NextTag
     \/ CountTag
     \/ CaseEnd
     \/ MemoryMap
     \/ Framebuffer
     \/ Cmdline
     \/ AcpiRsdp
     \/ Smp
     \/ Initrd
     \/ Bootloader
     \/ CaseDefault
     \/ Finish

\* if (!boot_info_parse(boot_info, &parsed)) for (;;) hlt;
KernelParsed ==
  /\ kernel_main.at = "parse"
  /\ pc = "done"
  /\ kernel_main' = [kernel_main EXCEPT
                       !.at = IF ret THEN "console" ELSE "halt"]
  /\ UNCHANGED parser

\* Step 3 going on to the banner whatever console_init returned
KernelConsoleUnchecked ==
  /\ kernel_main.at = "console"
  /\ IF parsed.has_framebuffer
     THEN \E ok \in BOOLEAN :
            kernel_main' = [kernel_main EXCEPT !.called = TRUE,
                                               !.initialized = ok,
                                               !.at = "banner"]
     ELSE kernel_main' = [kernel_main EXCEPT !.at = "halt"]
  /\ UNCHANGED parser

\* Step 3: console_init(parsed.framebuffer) when a framebuffer was
\* recorded; what console_init returns is not the kernel's to decide
KernelConsole ==
  /\ kernel_main.at = "console"
  /\ IF parsed.has_framebuffer
     THEN \E ok \in BOOLEAN :
            kernel_main' = [kernel_main EXCEPT
                              !.called = TRUE,
                              !.initialized = ok,
                              !.at = IF ok THEN "banner" ELSE "halt"]
     ELSE kernel_main' = [kernel_main EXCEPT !.at = "halt"]
  /\ UNCHANGED parser

\* Steps 4 to 7: print_banner, print_system_info, print_memory_map and the
\* closing messages, each writing to the console
KernelPrint ==
  /\ kernel_main.at \in {"banner", "system_info", "memory_map", "complete"}
  /\ kernel_main' = [kernel_main EXCEPT
                       !.shown = @ + 1,
                       !.at = CASE @ = "banner"      -> "system_info"
                                [] @ = "system_info" -> "memory_map"
                                [] @ = "memory_map"  -> "complete"
                                [] @ = "complete"    -> "halt"]
  /\ UNCHANGED parser

\* for (;;) { hlt }: the processor stops in hlt, and when something wakes
\* it the loop executes hlt again
Hlt ==
  /\ kernel_main.at = "halt"
  /\ kernel_main' = [kernel_main EXCEPT !.at = "halted"]
  /\ UNCHANGED parser

Wake ==
  /\ kernel_main.at = "halted"
  /\ kernel_main' = [kernel_main EXCEPT !.at = "halt"]
  /\ UNCHANGED parser

NextMain ==
  \/ KernelEntry
  \/ KernelValidate
  \/ Parsing
  \/ KernelParsed
  \/ KernelConsole
  \/ KernelPrint
  \/ Hlt
  \/ Wake

SpecMain == InitMain /\ [][NextMain]_vars

\* the positions of kernel_main
Stages == {"entry", "validate", "parse", "console", "banner", "system_info",
           "memory_map", "complete", "halt", "halted"}

\* kernel_main is sequential code: until it is in the halt loop, control
\* moves on, in kernel_main or in boot_info_parse
Progress ==
  /\ kernel_main.at \notin {"halt", "halted"}
  /\ pc' \in Positions
  /\ kernel_main' \in [at : Stages, validated : BOOLEAN, called : BOOLEAN,
                        initialized : BOOLEAN, shown : 0..4]
  /\ (pc' # pc \/ kernel_main'.at # kernel_main.at)

FairSpecMain == SpecMain /\ WF_<<pc, kernel_main>>(Progress)

(***************************************************************************)
(* Properties.                                                             *)
(***************************************************************************)

\* C1: while boot_info_parse runs on a blob that passed boot_info_validate,
\* every byte it reads lies at a blob offset in [0, total_size).
C1_ReadsInsideBlob == valid => ~oob

\* C2: every tag position the cursor returns has its whole 8-byte header
\* inside the blob.
C2_HeaderInsideBlob == pc = "count" => LoadInBlob(tag, SizeofTag)

\* the header condition of the claim, on the four fields
HeaderWellFormed(b) ==
  /\ b.info # NULL
  /\ b.magic = <<75, 79, 66, 68>>
  /\ b.total_size[4] <= 1
  /\ Val(b.total_size) >= 24
  /\ Val(b.total_size) <= 16777216
  /\ ~IsZero(b.version)
  /\ IsZero(b.reserved)

\* C3: boot_info_validate returns valid if and only if the reference is
\* non-null, magic = 0x44424F4B, 24 <= total_size <= 16777216, version >= 1
\* and reserved = 0; and the step that runs it changes nothing else.
C3_ValidateIff ==
  /\ [](pc # "call" => (valid <=> HeaderWellFormed(blob)))
  /\ [][pc = "call" =>
         UNCHANGED <<blob, outside, parsed, tag, found_end_tag, tag_count>>]_vars

C3_Witness ==
  pc = "init" /\ valid /\ blob.total_size = u32(16777216)

\* C4: boot_info_parse returns success only if the scan visited a tag of
\* type End; when the cursor returned none before any End tag, it fails.
C4_SuccessNeedsEnd == (pc = "done" /\ ret) => endAt # 0

C4_Witness ==
  pc = "done" /\ valid /\ ~ret /\ endAt = 0 /\ mmapAt # 0 /\ visited >= 2

\* C5: boot_info_parse returns success only if a memory map was recorded
\* before the End tag, which is the last tag visited.
C5_SuccessNeedsMemoryMap ==
  (pc = "done" /\ ret) => (mmapAt # 0 /\ mmapAt < endAt /\ endAt = visited)

C5_Witness ==
  pc = "done" /\ valid /\ ~ret /\ endAt # 0 /\ endAt = visited /\ mmapAt = 0

\* C6: boot_info_parse fails whenever the cursor yields more than 1000
\* tags; it succeeds only if the End tag is among the first 1000 tags, and
\* the 1001st tag is never interpreted.
C6_TagCap ==
  /\ (pc = "done" /\ visited > 1000) => ~ret
  /\ (pc = "done" /\ ret) => (endAt >= 1 /\ endAt <= 1000)
  /\ pc \in {"switch", "check"} => visited <= 1000

C6_Witness ==
  pc = "done" /\ visited = 1001 /\ endAt = 1001 /\ mmapAt = 1000 /\ ~ret

\* C7: every call of boot_info_parse returns, and the loop processes at
\* most 1001 cursor results.
C7_Terminates ==
  /\ [](visited <= 1001)
  /\ [](pc = "call" => <>(pc = "done"))

C7_Witness ==
  pc = "done" /\ visited = 1001 /\ endAt = 0 /\ ~ret

\* the record reports no parsed data
NoData(p) ==
  /\ ~p.has_memory_map /\ ~p.has_framebuffer /\ ~p.has_cmdline
  /\ ~p.has_acpi /\ ~p.has_smp /\ ~p.has_initrd
  /\ p.memory_map = NULL /\ p.framebuffer = NULL /\ p.cmdline = NULL
  /\ p.acpi_rsdp = NULL /\ p.smp = NULL /\ p.initrd = NULL
  /\ p.bootloader = NULL

\* C8: whenever boot_info_parse returns failure on a blob with a valid
\* header, the record reports no parsed data.
C8_NoPartialResult == (pc = "done" /\ valid /\ ~ret) => NoData(parsed)

\* a tag reference of the first call, as it reads after the insertion
Moved(p) ==
  IF p # NULL /\ Ge(p, prev.at) THEN Ptr(p, prev.len) ELSE p

\* the record of the first call with its references moved
MovedRecord(r) ==
  [r EXCEPT !.memory_map = Moved(@), !.framebuffer = Moved(@),
            !.cmdline = Moved(@), !.acpi_rsdp = Moved(@), !.smp = Moved(@),
            !.initrd = Moved(@), !.bootloader = Moved(@)]

\* the declared size of memory map tag t holds the entries it declares
EntriesFit(t) ==
  LET entry_size  == Zext(Rd(Ptr(t, 8), 4), 8)
      entry_count == Zext(Rd(Ptr(t, 12), 4), 8)
  IN  Le(Add(u64(16), Mul(entry_size, entry_count)), Zext(TagSize(t), 8))

\* the visited tags are laid out as the data model asks: nothing was read
\* outside the blob, and every memory map tag holds its entries
WellFormed ==
  /\ ~oob
  /\ ~prev.oob
  /\ \A i \in 1..Len(chain) :
        TagType(chain[i]) = DB_TAG_MEMORY_MAP => EntriesFit(chain[i])

\* C9 (as stated): inserting one well-formed tag of unknown type at a tag
\* position before the End tag, with total_size enlarged accordingly,
\* changes neither the outcome of boot_info_parse nor any recovered field,
\* for every blob including those with 1000 tags.
C9_ForwardCompatible ==
  (pc = "done" /\ call = 2 /\ prev.kind = "insert")
    => (ret = prev.ret /\ parsed = MovedRecord(prev.parsed))

\* C9 (amended): for a blob of well-formed tags whose End tag is among the
\* first 999 tags, inserting one well-formed tag of unknown type at a tag
\* position before the End tag changes neither the outcome nor any
\* recovered field, references to tags behind the insertion moving with
\* their tags.
C9_ForwardCompatibleBelowCap ==
  (pc = "done" /\ call = 2 /\ prev.kind = "insert" /\ WellFormed
     /\ prev.endAt >= 1 /\ prev.endAt <= 999)
    => (ret = prev.ret /\ parsed = MovedRecord(prev.parsed))

C9_Witness ==
  /\ pc = "done" /\ call = 2 /\ prev.kind = "insert" /\ WellFormed
  /\ prev.endAt = 999 /\ endAt = 1000
  /\ ret /\ prev.ret /\ parsed.memory_map = Ptr(prev.parsed.memory_map, 8)

\* C10: two calls of boot_info_parse on the same unmodified blob return the
\* same verdict and the same record; for a header-valid blob the record
\* does not depend on what the record held before the call.
C10_Idempotent ==
  (pc = "done" /\ call = 2 /\ prev.kind = "same")
    => /\ ret = prev.ret
       /\ (valid \/ ~prev.fresh) => parsed = prev.parsed

(***************************************************************************)
(* The blob as the data model lays it out, read by blob offset and         *)
(* independently of the cursor.                                            *)
(***************************************************************************)
\* the n bytes at blob offset o
FieldAt(o, n) == [i \in 1..n |-> BlobByte(o + i - 1)]

TypeAt(o) == Val(FieldAt(o, 2))
SizeAt(o) == FieldAt(o + 4, 4)
TotalSize == Val(blob.total_size)

\* the tag at offset o has size >= 8 and lies wholly inside total_size
Fits(o) ==
  /\ o + 8 <= TotalSize
  /\ Ge(SizeAt(o), u32(8))
  /\ Le(Zext(SizeAt(o), 8), u64(TotalSize - o))

\* the offsets of the tags from offset o on, up to the End tag or to the
\* first tag that does not fit
RECURSIVE TagsFrom(_)
TagsFrom(o) ==
  IF o + 8 > TotalSize THEN <<>>
  ELSE IF ~Fits(o) \/ TypeAt(o) = 0 THEN <<o>>
  ELSE <<o>> \o TagsFrom(o + 8 * ((Val(SizeAt(o)) + 7) \div 8))

\* the offsets of the tags of the blob: the filler tags, then the tags of
\* body
BlobTags ==
  [i \in 1..blob.pad |-> SizeofBootInfo + 8 * (i - 1)]
    \o TagsFrom(SizeofBootInfo + 8 * blob.pad)

\* some byte is zero among the n bytes from offset o
HasZero(o, n) == \E i \in 0..(n - 1) : BlobByte(o + i) = 0

\* the tag at offset o is what the data model says a tag of its kind is
DataModelTag(o) ==
  LET type == TypeAt(o)
      size == Val(SizeAt(o))
  IN  /\ Fits(o)
      /\ type = 2 =>
            /\ size >= 16
            /\ Ge(FieldAt(o + 8, 4), u32(24))
            /\ Le(Add(u64(16), Mul(Zext(FieldAt(o + 8, 4), 8),
                                   Zext(FieldAt(o + 12, 4), 8))),
                  u64(size))
      /\ type = 3 =>
            /\ size >= 40
            /\ ~IsZero(FieldAt(o + 16, 4))
            /\ ~IsZero(FieldAt(o + 20, 4))
            /\ ~IsZero(FieldAt(o + 28, 1))
      /\ type \in {1, 8} => (size > 8 /\ HasZero(o + 8, size - 8))
      /\ type = 5 => (size >= 16 /\ ~IsZero(FieldAt(o + 8, 8)))
      /\ type = 6 =>
            /\ size >= 16
            /\ ~IsZero(FieldAt(o + 8, 4))
            /\ Le(Add(u64(16), Mul(u64(8), Zext(FieldAt(o + 8, 4), 8))),
                  u64(size))
      /\ type = 11 =>
            /\ size >= 24
            /\ ~IsZero(FieldAt(o + 8, 8))
            /\ ~IsZero(FieldAt(o + 16, 8))

\* header valid, every tag as the data model says, a MemoryMap tag among
\* them, and the End tag last
DataModelBlob ==
  /\ HeaderWellFormed(blob)
  /\ LET tags == BlobTags
     IN  /\ tags # <<>>
         /\ \A i \in 1..Len(tags) : DataModelTag(tags[i])
         /\ TypeAt(tags[Len(tags)]) = 0
         /\ \E i \in 1..Len(tags) : TypeAt(tags[i]) = 2

\* the offset of the last tag of the given type, 0 when there is none
LastOf(tags, type) ==
  LET at == {i \in 1..Len(tags) : TypeAt(tags[i]) = type}
  IN  IF at = {} THEN 0 ELSE tags[CHOOSE i \in at : \A j \in at : j <= i]

\* the sum of the lengths of the usable entries of the memory map at o,
\* from entry i on with the sum so far; a length that would take the sum
\* past 64 bits is left out
RECURSIVE UsableBytes(_, _, _)
UsableBytes(o, i, sum) ==
  IF ~Lt(u32(i), FieldAt(o + 12, 4)) THEN sum
  ELSE LET e    == o + 16 + i * Val(FieldAt(o + 8, 4))
           more == Add(sum, FieldAt(e + 8, 8))
       IN  UsableBytes(o, i + 1,
                       IF FieldAt(e + 16, 4) = u32(1) /\ Ge(more, sum)
                       THEN more ELSE sum)

\* record r refers to the last tag of the type, when there is one
Refers(tags, type, has, ref) ==
  LastOf(tags, type) # 0 => (has /\ ref = Ptr(blob.info, LastOf(tags, type)))

\* the call succeeded and the record reflects the tags of the blob
Reflected ==
  LET tags == BlobTags
      p    == parsed
  IN  /\ ret
      /\ Refers(tags, 2, p.has_memory_map, p.memory_map)
      /\ Refers(tags, 3, p.has_framebuffer, p.framebuffer)
      /\ Refers(tags, 1, p.has_cmdline, p.cmdline)
      /\ Refers(tags, 5, p.has_acpi, p.acpi_rsdp)
      /\ Refers(tags, 6, p.has_smp, p.smp)
      /\ Refers(tags, 11, p.has_initrd, p.initrd)
      /\ Refers(tags, 8, TRUE, p.bootloader)
      /\ p.cpu_count = IF LastOf(tags, 6) = 0 THEN u32(1)
                       ELSE FieldAt(LastOf(tags, 6) + 8, 4)
      /\ Zext(p.total_usable_memory_mb, 8)
           = Shr20(UsableBytes(LastOf(tags, 2), 0, u64(0)))

\* C11 (as stated): for every blob with a valid header whose tags are each
\* well-formed per the data model and lie wholly inside total_size, that
\* contains a MemoryMap tag and ends with an End tag, boot_info_parse
\* succeeds, every tag kind present is present in the result and refers to
\* that tag, and cpu_count and total_usable_memory_mb match the input.
C11_RoundTrip == (pc = "done" /\ DataModelBlob) => Reflected

\* the blob of Scenario A with the given total_size: the header, one
\* MemoryMap tag {entry_size 24, entry_count 1, entry {base 0, length
\* 0x10000000, usable, attributes 0}}, immediately followed by an End tag
ScenarioA(total) ==
  /\ blob.info # NULL
  /\ blob.magic = <<75, 79, 66, 68>>
  /\ blob.total_size = u32(total)
  /\ blob.version = u32(1)
  /\ blob.reserved = u32(0)
  /\ blob.pad = 0
  /\ blob.body = <<2, 0, 0, 0, 40, 0, 0, 0, 24, 0, 0, 0, 1, 0, 0, 0,
                   0, 0, 0, 0, 0, 0, 0, 0, 0, 0, 0, 16, 0, 0, 0, 0,
                   1, 0, 0, 0, 0, 0, 0, 0, 0, 0, 0, 0, 8, 0, 0, 0>>

\* C12 (as stated): Scenario A with total_size = 32: boot_info_parse
\* succeeds with total_usable_memory_mb = 256 and cpu_count = 1.
C12_ScenarioA ==
  (pc = "done" /\ ScenarioA(32))
    => /\ ret
       /\ parsed.total_usable_memory_mb = u32(256)
       /\ parsed.cpu_count = u32(1)

\* C12 (amended): Scenario A with total_size = 64, the length of the header
\* and the two tags: boot_info_parse succeeds with total_usable_memory_mb =
\* 256 and cpu_count = 1.
C12_ScenarioA64 ==
  (pc = "done" /\ ScenarioA(64))
    => /\ ret
       /\ parsed.total_usable_memory_mb = u32(256)
       /\ parsed.cpu_count = u32(1)

C12_Witness ==
  pc = "done" /\ ScenarioA(64) /\ ret /\ visited = 2 /\ ~oob

\* the least size the case of a tag type records a tag with; the tag header
\* for the types of the default case
MinSize(type) ==
  CASE type \in {DB_TAG_CMDLINE, DB_TAG_BOOTLOADER} -> SizeofTag + 1
    [] type = DB_TAG_FRAMEBUFFER -> SizeofTagFramebuffer
    [] type = DB_TAG_ACPI_RSDP -> SizeofTagAcpiRsdp
    [] type = DB_TAG_SMP -> SizeofTag + 8
    [] type = DB_TAG_INITRD -> SizeofTagInitrd
    [] OTHER -> SizeofTag

\* a tag type other than End and MemoryMap with a size from least up to, but
\* not reaching, the minimum of the type
Defect(type, size, least) ==
  /\ type \notin {DB_TAG_END, DB_TAG_MEMORY_MAP}
  /\ Lt(size, u32(MinSize(type)))
  /\ Ge(size, u32(least))

\* the distance from a tag to the tag laid out behind it
Stride(size) ==
  IF Lt(size, u32(SizeofTag)) THEN SizeofTag ELSE Val(ALIGN_UP(size, 8))

\* the first tag of the blob is such a tag, and the tags behind it are a
\* well-formed MemoryMap tag and the End tag, both inside total_size
DefectThenMap(least) ==
  LET o  == SizeofBootInfo
      o1 == o + Stride(SizeAt(o))
  IN  /\ HeaderWellFormed(blob)
      /\ blob.pad = 0
      /\ Defect(TypeAt(o), SizeAt(o), least)
      /\ Len(TagsFrom(o1)) = 2
      /\ TypeAt(o1) = DB_TAG_MEMORY_MAP /\ DataModelTag(o1)
      /\ TypeAt(TagsFrom(o1)[2]) = DB_TAG_END /\ Fits(TagsFrom(o1)[2])

\* a step from the switch at such a tag leaves the record alone and goes on
\* to the cursor
DefectSkipped(least) ==
  (pc = "switch" /\ Defect(TagType(tag), TagSize(tag), least))
    => (parsed' = parsed /\ pc' = "loop" /\ tag' = tag)

\* the cursor called with such a tag yields the tag laid out behind it, when
\* the header of that tag lies in the blob
DefectFollowed(least) ==
  (/\ pc = "loop" /\ tag # NULL
   /\ Defect(TagType(tag), TagSize(tag), least)
   /\ LoadInBlob(Ptr(tag, Stride(TagSize(tag))), SizeofTag))
    => (pc' = "count" /\ tag' = Ptr(tag, Stride(TagSize(tag))))

\* C13 (as stated): a non-End, non-MemoryMap tag whose size is below the
\* minimum of its kind, sizes below the 8-byte tag header included, is only
\* skipped: the record is left alone, the scan continues with the tag that
\* follows, and the tag does not make boot_info_parse fail.
C13_DefectNotFatal ==
  /\ [][DefectSkipped(0)]_vars
  /\ [][DefectFollowed(0)]_vars
  /\ []((pc = "done" /\ DefectThenMap(0)) => ret)

\* C13 (amended): the same for sizes from 8 up to the minimum of the kind.
C13_DefectNotFatalFrom8 ==
  /\ [][DefectSkipped(SizeofTag)]_vars
  /\ [][DefectFollowed(SizeofTag)]_vars
  /\ []((pc = "done" /\ DefectThenMap(SizeofTag)) => ret)

C13_Witness ==
  /\ pc = "done" /\ ret /\ DefectThenMap(SizeofTag)
  /\ TypeAt(SizeofBootInfo) = DB_TAG_INITRD /\ ~parsed.has_initrd
  /\ visited = 3

\* size > 8 and one of the size - 8 bytes behind the header of t is zero
Terminated(t) ==
  /\ Gt(TagSize(t), u32(SizeofTag))
  /\ \E i \in 0..(Val(Sub(TagSize(t), u32(SizeofTag))) - 1) :
        Mem(Ptr(t, SizeofTag + i)) = 0

\* what the default case does with a tag: everything but the record is
\* left alone and the loop goes on to the cursor
AsUnknown == pc' = "loop" /\ UNCHANGED <<locals, ret, env>>

CmdlineStep ==
  (pc = "switch" /\ TagType(tag) = DB_TAG_CMDLINE)
    => /\ AsUnknown
       /\ parsed' = IF Terminated(tag)
                    THEN [parsed EXCEPT !.cmdline = tag, !.has_cmdline = TRUE]
                    ELSE parsed

BootloaderStep ==
  (pc = "switch" /\ TagType(tag) = DB_TAG_BOOTLOADER)
    => /\ AsUnknown
       /\ parsed' = IF Terminated(tag)
                    THEN [parsed EXCEPT !.bootloader = tag]
                    ELSE parsed

\* C14: a Cmdline tag, and likewise a Bootloader tag, is recorded if and
\* only if its size > 8 and one of the size - 8 bytes behind its header is
\* zero; otherwise the record stays as it was, and in both cases everything
\* else goes on as in the default case of an unknown type.
C14_StringTags == [][CmdlineStep]_vars /\ [][BootloaderStep]_vars

\* Scenario E: a Cmdline tag of size 13, no zero among its 5 bytes, in
\* front of a MemoryMap and an End tag
C14_Witness ==
  /\ pc = "done" /\ ret /\ ~parsed.has_cmdline /\ parsed.has_memory_map
  /\ TypeAt(SizeofBootInfo) = DB_TAG_CMDLINE
  /\ SizeAt(SizeofBootInfo) = u32(13)
  /\ ~HasZero(SizeofBootInfo + SizeofTag, 5)

\* the step of Step 1 ends in the initialization when the validator
\* returned true, and otherwise in the return of false
ValidateStep ==
  pc = "call" => IF valid' THEN pc' = "init" ELSE pc' = "done" /\ ~ret'

\* C15: the Header Validator runs first: as long as it has not returned
\* valid in this call, no tag has come from the cursor and no byte outside
\* the 16-byte header has been read; the initialization, the cursor and the
\* cases run only after it returned valid; and when it returns invalid the
\* very next state is the return of failure.
C15_ValidatorFirst ==
  /\ []((pc = "call" \/ ~valid) => (~past_header /\ visited = 0))
  /\ [](~valid => pc \in {"call", "done"})
  /\ [][ValidateStep]_vars

\* Scenario B: the header of Scenario A with reserved = 1
C15_Witness ==
  /\ pc = "done" /\ ~valid /\ ~ret /\ ~past_header /\ visited = 0
  /\ blob.info # NULL /\ blob.magic = u32(DB_BOOT_MAGIC)
  /\ blob.reserved = u32(1)

\* the positions in tags of the Smp tags with size >= 16 and a cpu_count
\* other than 0
CountingSmp(tags) ==
  {i \in 1..Len(tags) :
     /\ TypeAt(tags[i]) = DB_TAG_SMP
     /\ Ge(SizeAt(tags[i]), u32(SizeofTag + 8))
     /\ ~IsZero(FieldAt(tags[i] + 8, 4))}

\* the cpu_count of the last of them, 1 when there is none
ExpectedCpuCount ==
  LET tags == BlobTags
      at   == CountingSmp(tags)
  IN  IF at = {} THEN u32(1)
      ELSE FieldAt(tags[CHOOSE i \in at : \A j \in at : j <= i] + 8, 4)

\* C16: from the initialization on, cpu_count >= 1 in every state of a
\* parse; on success cpu_count is the cpu_count field of the last Smp tag in
\* front of the End tag that has size >= 16 and cpu_count # 0, and 1 when
\* there is no such tag.
C16_CpuCount ==
  /\ (pc \in {"loop", "count", "switch", "check"} \/ (pc = "done" /\ valid))
       => ~IsZero(parsed.cpu_count)
  /\ (pc = "done" /\ ret) => parsed.cpu_count = ExpectedCpuCount

\* two Smp tags that count, the second one announcing four processors
C16_Witness ==
  /\ pc = "done" /\ ret /\ parsed.cpu_count = u32(4)
  /\ Cardinality(CountingSmp(BlobTags)) = 2

\* entry i (from 1) of the memory map the record refers to: its length and
\* whether its type is usable
EntryAt(i) ==
  Ptr(parsed.memory_map, 16 + (i - 1) * Val(Rd(Ptr(parsed.memory_map, 8), 4)))
EntryLength(i) == Rd(Ptr(EntryAt(i), 8), 8)
EntryUsable(i) == Rd(Ptr(EntryAt(i), 16), 4) = u32(DB_MEM_USABLE)

\* the running total in front of entry i
TotalBefore(i) == IF i = 1 THEN u64(0) ELSE totals[i - 1]

\* the offsets of all the entries of the map at t are below 2^31:
\* entry_size is below 2^16 and entry_count below 2^15
OffsetsFit(t) ==
  /\ Lt(Rd(Ptr(t, 8), 4), u32(65536))
  /\ Lt(Rd(Ptr(t, 12), 4), u32(32768))

\* the sum of the running total and the length of entry i fits in 64 bits:
\* the sum modulo 2^64 is not below the total
SumFits(i) == Ge(Add(TotalBefore(i), EntryLength(i)), TotalBefore(i))

\* C17: for a recorded memory map with entry offsets below 2^31 the running
\* byte total after entry i is the total before it plus the entry's length
\* when the entry is usable and
\* the sum fits in 64 bits, and the total before it otherwise; every entry
\* has its turn, the ones behind an overflow too; and a parse that recorded
\* a map with an overflow and ended at the End tag succeeds.
C17_RunningTotal ==
  /\ (mmapAt # 0 /\ OffsetsFit(parsed.memory_map)) =>
        /\ Len(totals) = Val(Rd(Ptr(parsed.memory_map, 12), 4))
        /\ \A i \in 1..Len(totals) :
              totals[i] = IF EntryUsable(i) /\ SumFits(i)
                          THEN Add(TotalBefore(i), EntryLength(i))
                          ELSE TotalBefore(i)
  /\ (/\ pc = "done" /\ mmapAt # 0 /\ found_end_tag
      /\ OffsetsFit(parsed.memory_map)
      /\ \E i \in 1..Len(totals) : EntryUsable(i) /\ ~SumFits(i))
       => ret

\* 2^63 + 1 MiB, then an overflow, then an unusable entry, then 3 MiB more
C17_Witness ==
  /\ pc = "done" /\ ret /\ Len(totals) = 4
  /\ EntryUsable(2) /\ ~SumFits(2) /\ ~EntryUsable(3)
  /\ totals[2] = totals[1] /\ totals[3] = totals[1]
  /\ totals[4] = <<0, 0, 64, 0, 0, 0, 0, 128>>

\* the byte total the loop over the entries of the recorded map ended with
ByteTotal == IF totals = <<>> THEN u64(0) ELSE totals[Len(totals)]

\* C18: total_usable_memory_mb is floor(byte total / 1,048,576) for every
\* 64-bit byte total of the recorded memory map, totals of 2^52 bytes and
\* more included.
C18_Megabytes ==
  mmapAt # 0 => Zext(parsed.total_usable_memory_mb, 8) = Shr20(ByteTotal)

\* C19: the cursor returns none for a previous tag of type End whatever
\* its size and flags; no tag behind the first End tag is visited; and the
\* return value and the record of a parse are the same for two blobs that
\* differ only in bytes behind the type field of the first End tag.
C19_EndIsFinal ==
  /\ (pc \in {"check", "done"} /\ tag # NULL /\ TagType(tag) = DB_TAG_END)
       => boot_info_get_next_tag(tag) = NULL
  /\ endAt # 0 => visited = endAt
  /\ (pc = "done" /\ call = 2 /\ prev.kind = "tail")
       => (ret = prev.ret /\ parsed = prev.parsed)

\* a call of the cursor with a previous tag: none for a size below 8, and
\* otherwise none or a position at least 8 bytes behind the previous one
CursorAdvances ==
  (pc = "loop" /\ tag # NULL)
    => IF Lt(TagSize(tag), u32(SizeofTag)) THEN tag' = NULL
       ELSE \/ tag' = NULL
            \/ Gt(tag', tag) /\ Ge(Sub(tag', tag), u64(SizeofTag))

\* C20: the cursor never stalls or moves backwards: with a previous tag of
\* size < 8 it returns none, with any other previous tag none or a position
\* at least 8 bytes beyond the previous tag's, and the positions visited in
\* one parse are all different.
C20_CursorAdvances ==
  /\ [][CursorAdvances]_vars
  /\ [](\A i, j \in 1..Len(chain) : i < j => chain[i] # chain[j])

\* x rounded up to a multiple of 8, on 64 bits
AlignUp8(x) == LET t == Add(x, u64(7)) IN [t EXCEPT ![1] = t[1] - (t[1] % 8)]

\* the blob offset of position t
OffsetOf(t) == Sub(t, blob.info)

\* the cursor called with the tag at offset o of size s yields, if anything,
\* the position at offset o + align_up(s, 8) = align_up(o + s, 8)
CursorAligned ==
  (pc = "loop" /\ tag # NULL /\ tag' # NULL)
    => LET o == OffsetOf(tag)
           s == Zext(TagSize(tag), 8)
       IN  /\ Ge(s, u64(SizeofTag))
           /\ OffsetOf(tag') = Add(o, AlignUp8(s))
           /\ OffsetOf(tag') = AlignUp8(Add(o, s))

\* C21: every position the cursor yields lies at a blob offset that is a
\* multiple of 8 and at least 16, and the position behind a tag at offset o
\* with size s >= 8 is both o + align_up(s, 8) and align_up(o + s, 8).
C21_Aligned ==
  /\ [](tag # NULL =>
          (OffsetOf(tag)[1] % 8 = 0 /\ Ge(OffsetOf(tag), u64(SizeofBootInfo))))
  /\ [][CursorAligned]_vars

\* the position behind a tag of size 13
C21_Witness ==
  /\ pc = "count" /\ Len(chain) >= 2 /\ tag = chain[Len(chain)]
  /\ TagSize(chain[Len(chain) - 1]) = u32(13)
  /\ OffsetOf(tag) = u64(32)

\* the cursor called with a tag whose size is 2^32 - 7 or more yields none,
\* and a position it yields lies at least the size behind the tag
CursorUnwrapped ==
  (pc = "loop" /\ tag # NULL)
    => /\ Ge(TagSize(tag), <<249, 255, 255, 255>>) => tag' = NULL
       /\ tag' # NULL => Ge(Sub(tag', tag), Zext(TagSize(tag), 8))

\* C22: when rounding the size of the previous tag up to a multiple of 8
\* wraps modulo 2^32 (sizes 2^32 - 7 to 2^32 - 1) the cursor returns none,
\* and for no size is the next position computed from a rounded size that
\* is smaller than the size.
C22_NoWrappedSize == [][CursorUnwrapped]_vars

\* a tag of size 2^32 - 1 with a memory map and an end tag behind it
C22_Witness ==
  /\ pc = "check" /\ tag = NULL /\ visited = 1 /\ ~found_end_tag
  /\ SizeAt(SizeofBootInfo) = U32_MAX
  /\ TypeAt(SizeofBootInfo) # DB_TAG_END
  /\ TotalSize = 72

\* the two tests of the memory map case, on the tag at address t and on the
\* tag at blob offset o
MapAccepted(t) ==
  /\ Ge(TagSize(t), u32(16))
  /\ Ge(Rd(Ptr(t, 8), 4), u32(24))
MapAcceptedAt(o) ==
  /\ TypeAt(o) = DB_TAG_MEMORY_MAP
  /\ Ge(SizeAt(o), u32(16))
  /\ Ge(FieldAt(o + 8, 4), u32(24))

\* the step of the memory map case records the tag when it passes the two
\* tests and leaves the record as it was when it does not
MemoryMapStep ==
  (pc = "switch" /\ TagType(tag) = DB_TAG_MEMORY_MAP)
    => IF MapAccepted(tag)
       THEN parsed'.has_memory_map /\ parsed'.memory_map = tag
       ELSE parsed' = parsed

EntryOffset(t, i) == Mul(u64(i), Zext(Rd(Ptr(t, 8), 4), 8))

\* C24: for every index i below entry_count of a MemoryMap tag that is
\* recorded, the entry read in turn i lies at entries + i * entry_size, the
\* product being the integer product, 2^32 and more included: the type of
\* the entry is loaded from that address plus 16.
C24_EntryStride ==
  (pc = "switch" /\ TagType(tag) = DB_TAG_MEMORY_MAP /\ MapAccepted(tag))
    => \A i \in 1..Val(Rd(Ptr(tag, 12), 4)) :
          <<Ptr(Add(Ptr(tag, 16), EntryOffset(tag, i - 1)), 16), 4>>
            \in CaseMemoryMap(tag, parsed).loads

\* the tests of the framebuffer case on the tag at address t: the size and
\* the three dimensions
FramebufferSized(t) ==
  /\ Ge(TagSize(t), u32(40))
  /\ ~IsZero(Rd(Ptr(t, 16), 4))
  /\ ~IsZero(Rd(Ptr(t, 20), 4))
  /\ ~IsZero(Rd(Ptr(t, 28), 1))

\* the step of the framebuffer case records the tag exactly when accepted
\* holds and leaves the record as it was otherwise
FramebufferStep(accepted) ==
  (pc = "switch" /\ TagType(tag) = DB_TAG_FRAMEBUFFER)
    => parsed' = IF accepted
                 THEN [parsed EXCEPT !.framebuffer = tag,
                                     !.has_framebuffer = TRUE]
                 ELSE parsed

\* C25 as stated: a Framebuffer tag is recorded exactly when its size is at
\* least 40 and its width, height and bpp are all non-zero, whatever its
\* address, pitch and channel fields.
C25_FramebufferRecorded == [][FramebufferStep(FramebufferSized(tag))]_vars

\* C25: a Framebuffer tag is recorded exactly when its size is at least 40,
\* its width, height and bpp are all non-zero and its address is non-zero,
\* whatever its pitch and channel fields.
C25_FramebufferAddressed ==
  [][FramebufferStep(FramebufferSized(tag)
                       /\ ~IsZero(Rd(Ptr(tag, 8), 8)))]_vars

\* a framebuffer whose pitch and channel fields are all zero is recorded
C25_Witness ==
  /\ pc = "done" /\ ret /\ parsed.has_framebuffer
  /\ IsZero(Rd(Ptr(parsed.framebuffer, 24), 4))
  /\ IsZero(Rd(Ptr(parsed.framebuffer, 29), 8))

\* the step of the ACPI case and of the initrd case record the tag when it
\* passes the tests and leave the record as it was when it does not
AcpiRsdpStep ==
  (pc = "switch" /\ TagType(tag) = DB_TAG_ACPI_RSDP)
    => parsed' = IF /\ Ge(TagSize(tag), u32(16))
                    /\ ~IsZero(Rd(Ptr(tag, 8), 8))
                 THEN [parsed EXCEPT !.acpi_rsdp = tag, !.has_acpi = TRUE]
                 ELSE parsed
InitrdStep ==
  (pc = "switch" /\ TagType(tag) = DB_TAG_INITRD)
    => parsed' = IF /\ Ge(TagSize(tag), u32(24))
                    /\ ~IsZero(Rd(Ptr(tag, 8), 8))
                    /\ ~IsZero(Rd(Ptr(tag, 16), 8))
                 THEN [parsed EXCEPT !.initrd = tag, !.has_initrd = TRUE]
                 ELSE parsed

\* C26: an AcpiRsdp tag is recorded if and only if its size >= 16 and its
\* address is non-zero, an Initrd tag if and only if its size >= 24 and
\* its start and its length are both non-zero; a rejected tag of either
\* kind leaves every field of the record unchanged.
C26_AddressTags == [][AcpiRsdpStep]_vars /\ [][InitrdStep]_vars

\* an initrd with a length but no start, behind a recorded ACPI tag, is
\* not recorded
C26_Witness ==
  /\ pc = "done" /\ ret /\ parsed.has_acpi /\ ~parsed.has_initrd
  /\ TypeAt(32) = DB_TAG_INITRD /\ SizeAt(32) = u32(24)
  /\ IsZero(FieldAt(40, 8)) /\ ~IsZero(FieldAt(48, 8))

\* the types the protocol gives a meaning the parser acts on
Interpreted ==
  {DB_TAG_END, DB_TAG_CMDLINE, DB_TAG_MEMORY_MAP, DB_TAG_FRAMEBUFFER,
   DB_TAG_ACPI_RSDP, DB_TAG_SMP, DB_TAG_BOOTLOADER, DB_TAG_INITRD}

\* the step taken on a tag of any other type
UnlistedStep ==
  (pc = "switch" /\ TagType(tag) \notin Interpreted)
    => parsed' = parsed /\ AsUnknown

\* C27: interpreting a tag whose type is none of End, Cmdline, MemoryMap,
\* Framebuffer, AcpiRsdp, Smp, Bootloader, Initrd leaves every field of the
\* record unchanged and nothing else happens than that the loop goes on to
\* the cursor, with the same tag, the same count and no verdict.
C27_UnlistedSkipped == [][UnlistedStep]_vars

\* a tag of type 0xFFFF behind a recorded memory map has been skipped
C27_Witness ==
  /\ pc = "loop" /\ tag # NULL /\ TagType(tag) = 65535
  /\ parsed.has_memory_map /\ ~parsed.has_acpi

\* the call is past Step 2: the validator accepted the header and the
\* record has been given its defaults
Initialized ==
  \/ pc \in {"loop", "count", "switch", "check"}
  \/ pc = "done" /\ valid

\* what each case asks of the tag at t before it records it
Validated(type, t) ==
  CASE type = DB_TAG_MEMORY_MAP  -> MapAccepted(t)
    [] type = DB_TAG_FRAMEBUFFER -> /\ FramebufferSized(t)
                                    /\ ~IsZero(Rd(Ptr(t, 8), 8))
    [] type \in {DB_TAG_CMDLINE, DB_TAG_BOOTLOADER} -> Terminated(t)
    [] type = DB_TAG_ACPI_RSDP   -> /\ Ge(TagSize(t), u32(16))
                                    /\ ~IsZero(Rd(Ptr(t, 8), 8))
    [] type = DB_TAG_SMP         -> /\ Ge(TagSize(t), u32(16))
                                    /\ ~IsZero(Rd(Ptr(t, 8), 4))
    [] type = DB_TAG_INITRD      -> /\ Ge(TagSize(t), u32(24))
                                    /\ ~IsZero(Rd(Ptr(t, 8), 8))
                                    /\ ~IsZero(Rd(Ptr(t, 16), 8))

\* the flag is set exactly when the reference is, and the reference is to
\* a tag of the type that passes the tests of its case
Agrees(flag, ref, type) ==
  /\ flag <=> ref # NULL
  /\ ref # NULL => (TagType(ref) = type /\ Validated(type, ref))

Recorded ==
  {DB_TAG_MEMORY_MAP, DB_TAG_FRAMEBUFFER, DB_TAG_CMDLINE, DB_TAG_ACPI_RSDP,
   DB_TAG_SMP, DB_TAG_INITRD, DB_TAG_BOOTLOADER}

\* the address of the last tag of the type that passes the tests of its
\* case, NULL when there is none
LastValid(tags, type) ==
  LET at == {i \in 1..Len(tags) :
               /\ TypeAt(tags[i]) = type
               /\ Validated(type, Ptr(blob.info, tags[i]))}
  IN  IF at = {} THEN NULL
      ELSE Ptr(blob.info, tags[CHOOSE i \in at : \A j \in at : j <= i])

\* the record refers, for each kind, to the last tag that passes the tests,
\* and the two numbers come from the SMP tag and the memory map referred to
LastValidWins ==
  LET tags == BlobTags
      p    == parsed
  IN  /\ p.memory_map = LastValid(tags, DB_TAG_MEMORY_MAP)
      /\ p.framebuffer = LastValid(tags, DB_TAG_FRAMEBUFFER)
      /\ p.cmdline = LastValid(tags, DB_TAG_CMDLINE)
      /\ p.acpi_rsdp = LastValid(tags, DB_TAG_ACPI_RSDP)
      /\ p.smp = LastValid(tags, DB_TAG_SMP)
      /\ p.initrd = LastValid(tags, DB_TAG_INITRD)
      /\ p.bootloader = LastValid(tags, DB_TAG_BOOTLOADER)
      /\ p.cpu_count = IF p.smp = NULL THEN u32(1) ELSE Rd(Ptr(p.smp, 8), 4)
      /\ p.total_usable_memory_mb
           = IF p.memory_map = NULL THEN u32(0)
             ELSE Trunc(Shr20(UsableBytes(Val(OffsetOf(p.memory_map)), 0,
                                          u64(0))), 4)

\* the step on a tag of a recorded kind that does not pass the tests
RejectedStep ==
  (/\ pc = "switch" /\ TagType(tag) \in Recorded
   /\ ~Validated(TagType(tag), tag))
    => parsed' = parsed

\* C29: when several tags of one kind stand in front of the End tag, the
\* record refers to the last one that passed validation, and
\* total_usable_memory_mb is the megabytes of that memory map alone; a tag
\* that does not pass validation leaves what an earlier one recorded as it
\* was.  (The end state is compared for the parses that read nothing
\* outside the blob, the megabytes as the 32 bits the field holds.)
C29_LastValidWins ==
  /\ []((pc = "done" /\ ret /\ ~oob) => LastValidWins)
  /\ [][RejectedStep]_vars

\* a memory map of 256 MiB, then one without entries: 0 megabytes
C29_Witness ==
  /\ pc = "done" /\ ret /\ ~oob
  /\ TypeAt(16) = DB_TAG_MEMORY_MAP /\ Validated(2, Ptr(blob.info, 16))
  /\ parsed.memory_map = Ptr(blob.info, 56)
  /\ parsed.total_usable_memory_mb = u32(0)

\* the first call of the cursor in a parse: previous is none
FirstCall ==
  (pc = "loop" /\ tag = NULL)
    => /\ valid
       /\ tag' # NULL
       /\ tag' = Ptr(blob.info, SizeofBootInfo)
       /\ pc' = "count"

\* C30: for every blob that passes boot_info_validate the first call of
\* the cursor (previous = none) does not return none but the tag at offset
\* 16, so that the parse never leaves the loop without a tag: whenever it
\* is behind the loop, at least one tag has been counted and, unless the
\* cap is below one tag, interpreted.
C30_FirstTag ==
  /\ [][FirstCall]_vars
  /\ [](boot_info_validate(blob)
          => boot_info_get_next_tag(NULL) = Ptr(blob.info, SizeofBootInfo))
  /\ []((valid /\ pc \in {"check", "done"})
          => (visited >= 1 /\ tag_count >= 1))
  /\ [][(valid /\ pc = "count" /\ tag_count = 0) => pc' = "switch"]_vars

\* a blob of 24 bytes, with room for exactly one tag header: the header
\* has been returned and interpreted
C30_Witness ==
  /\ pc = "done" /\ valid /\ blob.total_size = u32(24)
  /\ visited = 1 /\ tag_count = 1 /\ found_end_tag

\* the fifteen fields of the record as Step 2 leaves them
Overwritten ==
  /\ DOMAIN parsed' =
       {"has_memory_map", "has_framebuffer", "has_cmdline", "has_acpi",
        "has_smp", "has_initrd", "memory_map", "framebuffer", "cmdline",
        "acpi_rsdp", "smp", "initrd", "bootloader",
        "total_usable_memory_mb", "cpu_count"}
  /\ ~parsed'.has_memory_map /\ ~parsed'.has_framebuffer
  /\ ~parsed'.has_cmdline /\ ~parsed'.has_acpi
  /\ ~parsed'.has_smp /\ ~parsed'.has_initrd
  /\ parsed'.memory_map = NULL /\ parsed'.framebuffer = NULL
  /\ parsed'.cmdline = NULL /\ parsed'.acpi_rsdp = NULL
  /\ parsed'.smp = NULL /\ parsed'.initrd = NULL
  /\ parsed'.bootloader = NULL
  /\ parsed'.total_usable_memory_mb = u32(0)
  /\ parsed'.cpu_count = u32(1)

\* the call of the validator leaves the record alone whatever it returns,
\* and a rejection is the end of the call
RejectedFrame ==
  pc = "call" => (parsed' = parsed /\ (~valid' => pc' = "done"))

\* the step behind an accepted header writes all the fields, whatever they
\* held, and no tag has been read by then
AcceptedFrame ==
  pc = "init"
    => /\ valid /\ Overwritten
       /\ visited = 0 /\ ~past_header /\ tag' = NULL /\ pc' = "loop"

\* C31: when the Header Validator rejects the blob, boot_info_parse leaves
\* the caller's record as it was (it is not reset to the defaults); on a
\* blob with a valid header all fifteen fields of the record are written
\* before the first tag is read.
C31_RecordFrame ==
  /\ [][RejectedFrame]_vars
  /\ [][AcceptedFrame]_vars
  /\ []((pc = "done" /\ ~valid /\ call = 1) => parsed \in Records)

\* a rejected first call has returned with the record still holding what
\* the caller left in it, no field at its default
C31_Witness ==
  /\ pc = "done" /\ ~valid /\ ~ret /\ call = 1
  /\ parsed = Stale
  /\ parsed.cpu_count # u32(1) /\ parsed.has_memory_map

\* kernel_main is in its halt loop
Halting == kernel_main.at \in {"halt", "halted"}

\* C32: in kernel_main console_init is called only after
\* boot_info_validate and boot_info_parse have both returned true and a
\* framebuffer was recorded; nothing is written to the console before
\* console_init has returned true; and on every path kernel_main comes to
\* its halt loop, stays in it for ever and never returns.
C32_KernelMain ==
  /\ [](kernel_main.called
          => /\ kernel_main.validated
             /\ pc = "done" /\ ret
             /\ parsed.has_framebuffer)
  /\ [][kernel_main'.called /\ ~kernel_main.called
          => kernel_main.at = "console"]_vars
  /\ [](kernel_main.shown > 0 => kernel_main.initialized)
  /\ [](kernel_main.at \in {"banner", "system_info", "memory_map", "complete"}
          => kernel_main.initialized)
  /\ [](kernel_main.at \in Stages)
  /\ [](Halting => []Halting)
  /\ <>Halting

\* the initialization was completed: the console was written to four
\* times behind a console_init that returned true, and the processor
\* stands in hlt
C32_Witness ==
  /\ kernel_main.at = "halted" /\ kernel_main.shown = 4
  /\ kernel_main.initialized /\ kernel_main.validated /\ ret
====
